---------------------------- MODULE Spec2Model ----------------------------
(***************************************************************************)
(* A model of colorwarm (src/src/main.rs): the day/night scheduler that    *)
(* turns the local time into a target Kelvin value, the integrated xsct    *)
(* engine that reads and writes the gamma ramps of the CRTCs of each X     *)
(* screen, the one-shot "colorwarm xsct" mode and the minute-driven main   *)
(* loop.                                                                   *)
(*                                                                         *)
(* Numbers.  i32 values are TLA+ integers (the ranges used stay inside     *)
(* 32 bits except where an overflow is modelled explicitly).  An f64       *)
(* brightness is a fixed-point integer counting thousandths (1.0 is        *)
(* BrightnessUnit); the f64 value NaN is the separate value NaN, on which  *)
(* every comparison is false, as in IEEE 754.                              *)
(***************************************************************************)
EXTENDS Integers, Sequences, FiniteSets, TLC

VARIABLES
    fn_pc,      \* "idle", or "ready" / "done" around a function under study
    fn_in,      \* the arguments of the function under study
    fn_out,     \* its result once fn_pc = "done"
    gamma,      \* the display: gamma[s][c] names the ramp of CRTC c of screen s
    args,       \* the parsed command line of "colorwarm xsct"
    pc,         \* the position of the running program
    outcome,    \* how the program ended, "running" before
    fault,      \* the port call that failed, "none" when none did
    cur,        \* xsct_standalone: the screen of the running for loop
    temp,       \* xsct_standalone: the local TempStatus temp (line 1031)
    nreads,     \* randr_get_crtc_gamma replies received
    nwrites,    \* randr_set_crtc_gamma requests sent
    last_write, \* per CRTC, the TempStatus of the last request sent for it
    reported,   \* the lines "Screen s: temperature ~ t b" printed
    now,        \* the local wall clock: month, day, minutes since midnight
    monthly_times, \* main: the MonthlyTimes built at line 1139
    last_minute,   \* main: the local last_minute (line 1184), <<>> before
    stdin,      \* the key waiting on the terminal: "none", "esc", "other"
    sched,      \* what the last manage_brightness_cycle computed and met
    napply,     \* calls of manage_brightness_cycle so far
    ticks       \* minutes the wall clock advanced since the start

fn_vars == <<fn_pc, fn_in, fn_out>>
run_vars == <<gamma, args, pc, outcome, fault, cur, temp, nreads, nwrites,
              last_write, reported>>
loop_vars == <<now, monthly_times, last_minute, stdin, sched, napply, ticks>>
vars == <<fn_vars, run_vars, loop_vars>>

---------------------------------------------------------------------------
(* Program constants                                                       *)

TEMPERATURE_NORM == 6500
TEMPERATURE_NIGHT == 4500
TEMPERATURE_ZERO == 700
DELTA_MIN == -1000000

\* The literals of manage_brightness_cycle.
SchedNight == 4500
SchedDay == 6500
SchedFallback == 5500
SchedSpan == 2000

\* Minutes in a day: get_current_local_time is hour * 60 + minute.
MinutesPerDay == 1440

\* One unit of brightness (the f64 1.0) in the fixed-point representation.
BrightnessUnit == 1000

\* i32::MAX.
MaxI32 == 2147483647

\* The f64 NaN ("nan" parses as an f64): a value apart from every number.
NaN == -MaxI32

None == [f |-> "none"]

---------------------------------------------------------------------------
(* Arithmetic helpers                                                      *)

\* Rust's integer division truncates toward zero; b # 0.
IDiv(a, b) ==
    IF (a >= 0) = (b > 0)
    THEN (IF a >= 0 THEN a ELSE -a) \div (IF b > 0 THEN b ELSE -b)
    ELSE -((IF a >= 0 THEN a ELSE -a) \div (IF b > 0 THEN b ELSE -b))

\* i32::clamp(lo, hi).
ClampI32(x, lo, hi) == IF x < lo THEN lo ELSE IF x > hi THEN hi ELSE x

\* f64 comparisons: false as soon as one side is NaN.
FLt(a, b) == a # NaN /\ b # NaN /\ a < b
FGt(a, b) == a # NaN /\ b # NaN /\ a > b
FEq(a, b) == a # NaN /\ b # NaN /\ a = b
FAdd(a, b) == IF a = NaN \/ b = NaN THEN NaN ELSE a + b

\* i32 addition of a >= 0 and b: the sum, and whether it overflowed (the
\* sum is then the wrapped one of a build without overflow checks).
AddOverflows(a, b) == b > MaxI32 - a
WrappingAdd(a, b) ==
    IF AddOverflows(a, b) THEN (a - MaxI32 - 1) + (b - MaxI32 - 1) ELSE a + b

\* double_trim(x, a, b): NaN passes through, both comparisons being false.
double_trim(x, a, b) == IF FLt(x, a) THEN a ELSE IF FGt(x, b) THEN b ELSE x

---------------------------------------------------------------------------
(* bound_temp                                                              *)

\* A plausible slip: one branch, everything below the floor raised to it.
bound_temp_floor_only(ts) ==
    [temp |-> IF ts.temp < TEMPERATURE_ZERO THEN TEMPERATURE_ZERO ELSE ts.temp,
     brightness |-> IF FLt(ts.brightness, 0) THEN 0
                    ELSE IF FGt(ts.brightness, BrightnessUnit)
                         THEN BrightnessUnit ELSE ts.brightness]

bound_temp(ts) ==
    [temp |-> IF ts.temp <= 0 THEN TEMPERATURE_NORM
              ELSE IF ts.temp < TEMPERATURE_ZERO THEN TEMPERATURE_ZERO
              ELSE ts.temp,
     brightness |-> IF FLt(ts.brightness, 0) THEN 0
                    ELSE IF FGt(ts.brightness, BrightnessUnit)
                         THEN BrightnessUnit ELSE ts.brightness]

---------------------------------------------------------------------------
(* The Kelvin computation of manage_brightness_cycle                       *)

\* A plausible slip: the ramps divided by the length of the day, not by its
\* half.
DayRampFullDay(current_minutes, sunrise, sunset) ==
    LET day_length == sunset - sunrise
        half_day == IDiv(day_length, 2)
        midpoint == sunrise + half_day
        morning == current_minutes <= midpoint
    IN  IF half_day = 0
        THEN [branch |-> IF morning THEN "morning" ELSE "afternoon",
              panicked |-> TRUE, raw |-> 0]
        ELSE IF morning
        THEN [branch |-> "morning", panicked |-> FALSE,
              raw |-> SchedNight
                      + IDiv((current_minutes - sunrise) * SchedSpan,
                             day_length)]
        ELSE [branch |-> "afternoon", panicked |-> FALSE,
              raw |-> SchedDay
                      - IDiv((current_minutes - midpoint) * SchedSpan,
                             day_length)]

\* The two halves of the day.  The division by half_day panics when the
\* day is one minute long (half_day = 0): kelvin is then absent.
DayRamp(current_minutes, sunrise, sunset) ==
    LET day_length == sunset - sunrise
        half_day == IDiv(day_length, 2)
        midpoint == sunrise + half_day
        morning == current_minutes <= midpoint
    IN  IF half_day = 0
        THEN [branch |-> IF morning THEN "morning" ELSE "afternoon",
              panicked |-> TRUE, raw |-> 0]
        ELSE IF morning
        THEN [branch |-> "morning", panicked |-> FALSE,
              raw |-> SchedNight
                      + IDiv((current_minutes - sunrise) * SchedSpan, half_day)]
        ELSE [branch |-> "afternoon", panicked |-> FALSE,
              raw |-> SchedDay
                      - IDiv((current_minutes - midpoint) * SchedSpan, half_day)]

\* A plausible slip: the day taken as the closed interval [sunrise, sunset].
RawKelvinClosedDay(current_minutes, sunrise, sunset) ==
    IF current_minutes > sunset \/ current_minutes < sunrise
    THEN [branch |-> "night", panicked |-> FALSE, raw |-> SchedNight]
    ELSE IF sunset - sunrise = 0
    THEN [branch |-> "fallback", panicked |-> FALSE, raw |-> SchedFallback]
    ELSE DayRamp(current_minutes, sunrise, sunset)

\* Lines 820-840: the branch taken, whether it panicked, the value computed.
RawKelvin(current_minutes, sunrise, sunset) ==
    IF current_minutes >= sunset \/ current_minutes < sunrise
    THEN [branch |-> "night", panicked |-> FALSE, raw |-> SchedNight]
    ELSE IF sunset - sunrise = 0
    THEN [branch |-> "fallback", panicked |-> FALSE, raw |-> SchedFallback]
    ELSE DayRamp(current_minutes, sunrise, sunset)

\* A plausible slip: the clamp put on the ramp's increment, not on the sum.
TargetKelvinClampIncrement(current_minutes, sunrise, sunset) ==
    LET r == RawKelvin(current_minutes, sunrise, sunset)
    IN  [branch |-> r.branch, panicked |-> r.panicked,
         kelvin |-> IF r.branch = "morning"
                    THEN SchedNight
                         + ClampI32(r.raw - SchedNight, SchedNight, SchedDay)
                    ELSE r.raw]

\* Lines 820-843: RawKelvin, then the clamp; kelvin is the value handed to
\* xsct_set_temperature.
TargetKelvin(current_minutes, sunrise, sunset) ==
    LET r == RawKelvin(current_minutes, sunrise, sunset)
    IN  [branch |-> r.branch, panicked |-> r.panicked,
         kelvin |-> ClampI32(r.raw, SchedNight, SchedDay)]

---------------------------------------------------------------------------
(* The display and the xsct engine                                         *)

\* A ramp is named by the TempStatus it was synthesized from, as the pair
\* <<temp, brightness after double_trim>>: lines 225-284 make the ramp a
\* function of the two (and of the CRTC's gamma size, 256 here).
RampOf(ts) == <<ts.temp, double_trim(ts.brightness, 0, BrightnessUnit)>>

\* conn.setup().roots.len() and resources.crtcs.len().
ScreenCount(g) == Cardinality(DOMAIN g)
CrtcCount(g, s) == Cardinality(DOMAIN g[s])

\* Lines 129-137 and 256-264: the CRTCs an icrtc selects on a screen, in the
\* order of the for loop.  An index that is negative or not below ncrtc
\* selects them all.
SelectedCrtcs(ncrtc, icrtc) ==
    IF icrtc >= 0 /\ icrtc < ncrtc
    THEN <<icrtc>>
    ELSE [i \in 1 .. ncrtc |-> i - 1]

\* Lines 139-208 in f64 over the peaks of the ramps read, tabulated by
\* tools/gen_tables.py: the ramps read, in order, give the estimate.
EstimateTable ==
    (<<>> :> [temp |-> 0, brightness |-> 0]) @@
    (<<<<3000, 500>>>> :> [temp |-> 3000, brightness |-> 499]) @@
    (<<<<4500, 997>>>> :> [temp |-> 4500, brightness |-> 994]) @@
    (<<<<4500, 1000>>>> :> [temp |-> 4500, brightness |-> 997]) @@
    (<<<<6500, 499>>>> :> [temp |-> 6500, brightness |-> 497]) @@
    (<<<<6500, 665>>>> :> [temp |-> 6500, brightness |-> 663]) @@
    (<<<<6500, 748>>>> :> [temp |-> 6500, brightness |-> 746]) @@
    (<<<<6500, 831>>>> :> [temp |-> 6500, brightness |-> 828]) @@
    (<<<<6500, 997>>>> :> [temp |-> 6500, brightness |-> 994]) @@
    (<<<<6500, 1000>>>> :> [temp |-> 6500, brightness |-> 997]) @@
    (<<<<3000, 500>>, <<3000, 500>>>> :> [temp |-> 3000, brightness |-> 499]) @@
    (<<<<3000, 500>>, <<4500, 1000>>>> :> [temp |-> 3914, brightness |-> 748]) @@
    (<<<<3000, 500>>, <<6500, 1000>>>> :> [temp |-> 4961, brightness |-> 748]) @@
    (<<<<4500, 997>>, <<4500, 997>>>> :> [temp |-> 4500, brightness |-> 994]) @@
    (<<<<4500, 1000>>, <<3000, 500>>>> :> [temp |-> 3914, brightness |-> 748]) @@
    (<<<<4500, 1000>>, <<4500, 1000>>>> :> [temp |-> 4500, brightness |-> 997]) @@
    (<<<<4500, 1000>>, <<6500, 1000>>>> :> [temp |-> 5395, brightness |-> 997]) @@
    (<<<<6500, 499>>, <<6500, 499>>>> :> [temp |-> 6500, brightness |-> 497]) @@
    (<<<<6500, 748>>, <<6500, 748>>>> :> [temp |-> 6500, brightness |-> 746]) @@
    (<<<<6500, 997>>, <<6500, 997>>>> :> [temp |-> 6500, brightness |-> 994]) @@
    (<<<<6500, 1000>>, <<3000, 500>>>> :> [temp |-> 4961, brightness |-> 748]) @@
    (<<<<6500, 1000>>, <<4500, 1000>>>> :> [temp |-> 5395, brightness |-> 997]) @@
    (<<<<6500, 1000>>, <<6500, 1000>>>> :> [temp |-> 6500, brightness |-> 997]) @@
    (<<<<3000, 500>>, <<3000, 500>>, <<3000, 500>>>> :> [temp |-> 3000, brightness |-> 499]) @@
    (<<<<3000, 500>>, <<3000, 500>>, <<4500, 1000>>>> :> [temp |-> 3656, brightness |-> 665]) @@
    (<<<<3000, 500>>, <<3000, 500>>, <<6500, 1000>>>> :> [temp |-> 4352, brightness |-> 665]) @@
    (<<<<3000, 500>>, <<4500, 1000>>, <<3000, 500>>>> :> [temp |-> 3656, brightness |-> 665]) @@
    (<<<<3000, 500>>, <<4500, 1000>>, <<4500, 1000>>>> :> [temp |-> 4137, brightness |-> 831]) @@
    (<<<<3000, 500>>, <<4500, 1000>>, <<6500, 1000>>>> :> [temp |-> 4770, brightness |-> 831]) @@
    (<<<<3000, 500>>, <<6500, 1000>>, <<3000, 500>>>> :> [temp |-> 4352, brightness |-> 665]) @@
    (<<<<3000, 500>>, <<6500, 1000>>, <<4500, 1000>>>> :> [temp |-> 4770, brightness |-> 831]) @@
    (<<<<3000, 500>>, <<6500, 1000>>, <<6500, 1000>>>> :> [temp |-> 5520, brightness |-> 831]) @@
    (<<<<4500, 997>>, <<4500, 997>>, <<4500, 997>>>> :> [temp |-> 4500, brightness |-> 994]) @@
    (<<<<4500, 1000>>, <<3000, 500>>, <<3000, 500>>>> :> [temp |-> 3656, brightness |-> 665]) @@
    (<<<<4500, 1000>>, <<3000, 500>>, <<4500, 1000>>>> :> [temp |-> 4137, brightness |-> 831]) @@
    (<<<<4500, 1000>>, <<3000, 500>>, <<6500, 1000>>>> :> [temp |-> 4770, brightness |-> 831]) @@
    (<<<<4500, 1000>>, <<4500, 1000>>, <<3000, 500>>>> :> [temp |-> 4137, brightness |-> 831]) @@
    (<<<<4500, 1000>>, <<4500, 1000>>, <<4500, 1000>>>> :> [temp |-> 4500, brightness |-> 997]) @@
    (<<<<4500, 1000>>, <<4500, 1000>>, <<6500, 1000>>>> :> [temp |-> 5075, brightness |-> 997]) @@
    (<<<<4500, 1000>>, <<6500, 1000>>, <<3000, 500>>>> :> [temp |-> 4770, brightness |-> 831]) @@
    (<<<<4500, 1000>>, <<6500, 1000>>, <<4500, 1000>>>> :> [temp |-> 5075, brightness |-> 997]) @@
    (<<<<4500, 1000>>, <<6500, 1000>>, <<6500, 1000>>>> :> [temp |-> 5737, brightness |-> 997]) @@
    (<<<<6500, 499>>, <<6500, 499>>, <<6500, 499>>>> :> [temp |-> 6500, brightness |-> 497]) @@
    (<<<<6500, 665>>, <<6500, 665>>, <<6500, 665>>>> :> [temp |-> 6500, brightness |-> 663]) @@
    (<<<<6500, 831>>, <<6500, 831>>, <<6500, 831>>>> :> [temp |-> 6500, brightness |-> 828]) @@
    (<<<<6500, 997>>, <<6500, 997>>, <<6500, 997>>>> :> [temp |-> 6500, brightness |-> 994]) @@
    (<<<<6500, 1000>>, <<3000, 500>>, <<3000, 500>>>> :> [temp |-> 4352, brightness |-> 665]) @@
    (<<<<6500, 1000>>, <<3000, 500>>, <<4500, 1000>>>> :> [temp |-> 4770, brightness |-> 831]) @@
    (<<<<6500, 1000>>, <<3000, 500>>, <<6500, 1000>>>> :> [temp |-> 5520, brightness |-> 831]) @@
    (<<<<6500, 1000>>, <<4500, 1000>>, <<3000, 500>>>> :> [temp |-> 4770, brightness |-> 831]) @@
    (<<<<6500, 1000>>, <<4500, 1000>>, <<4500, 1000>>>> :> [temp |-> 5075, brightness |-> 997]) @@
    (<<<<6500, 1000>>, <<4500, 1000>>, <<6500, 1000>>>> :> [temp |-> 5737, brightness |-> 997]) @@
    (<<<<6500, 1000>>, <<6500, 1000>>, <<3000, 500>>>> :> [temp |-> 5520, brightness |-> 831]) @@
    (<<<<6500, 1000>>, <<6500, 1000>>, <<4500, 1000>>>> :> [temp |-> 5737, brightness |-> 997]) @@
    (<<<<6500, 1000>>, <<6500, 1000>>, <<6500, 1000>>>> :> [temp |-> 6500, brightness |-> 997])

\* get_sct_for_screen once every selected CRTC was read.
get_sct_for_screen(g, s, icrtc) ==
    LET sel == SelectedCrtcs(CrtcCount(g, s), icrtc)
    IN  EstimateTable[[i \in 1 .. Len(sel) |-> g[s][sel[i]]]]

\* What the port does to one call of get_sct_for_screen or sct_for_screen
\* over n CRTCs: every request served ("ok"), or the k-th CRTC's request
\* failing after k were served (an expect() panics), or the resources
\* request failing before any.
PortPlans(n, crtc_faults) ==
    {[kind |-> "ok", served |-> n, fault |-> "none"]}
    \cup {[kind |-> "panic", served |-> 0, fault |-> "resources"]}
    \cup [kind : {"panic"}, served : 0 .. (n - 1), fault : crtc_faults]

\* sct_for_screen, lines 266-288: the display after the first k selected
\* CRTCs were written with the ramp of ts.
WriteCrtcs(g, s, icrtc, ts, k) ==
    LET sel == SelectedCrtcs(CrtcCount(g, s), icrtc)
        done == {sel[i] : i \in 1 .. k}
    IN  [g EXCEPT ![s] = [c \in DOMAIN g[s] |->
                            IF c \in done THEN RampOf(ts) ELSE g[s][c]]]

\* The record of the requests sent by the same call.
LogWrites(lw, g, s, icrtc, ts, k) ==
    LET sel == SelectedCrtcs(CrtcCount(g, s), icrtc)
        done == {sel[i] : i \in 1 .. k}
    IN  [lw EXCEPT ![s] = [c \in DOMAIN lw[s] |->
                             IF c \in done THEN <<ts>> ELSE lw[s][c]]]

---------------------------------------------------------------------------
(* colorwarm xsct: xsct_standalone                                         *)

\* Bounds of the displays tried.
MaxScreens == 2
MaxCrtc == 2

\* The ramps a display starts with: neutral, night, and a dimmed warm one.
SeedRamps == << <<6500, 1000>>, <<4500, 1000>>, <<3000, 500>> >>

\* The displays tried: 1 .. MaxScreens screens of 1 or MaxCrtc CRTCs each,
\* neighbouring CRTCs starting with different ramps (two ways).
Displays ==
    UNION {
        { [s \in 0 .. (n - 1) |->
              [c \in 0 .. (shape[s] - 1) |->
                  SeedRamps[((s + c + k) % Len(SeedRamps)) + 1]]]
          : shape \in [0 .. (n - 1) -> {1, MaxCrtc}],
            k \in 0 .. 1 }
        : n \in 1 .. MaxScreens }

NeverWritten(g) == [s \in DOMAIN g |-> [c \in DOMAIN g[s] |-> <<>>]]

\* The command lines tried, as parsed at lines 970-990.  screen_specified is
\* an Option (<<>> is None); temp_arg and brightness_arg are DELTA_MIN when
\* the argument is absent or does not parse.
XsctTemps == {DELTA_MIN, -5, 0, 100, 3000, MaxI32}
XsctBrightnesses == {DELTA_MIN * BrightnessUnit, NaN, -200, 500, 1500}

XsctArgs ==
    [fhelp : {FALSE}, fdelta : BOOLEAN, toggle : BOOLEAN,
     screen_specified : {<<>>} \cup {<<i>> : i \in 0 .. MaxScreens},
     crtc_specified : (-1) .. MaxCrtc,
     temp_arg : XsctTemps, brightness_arg : XsctBrightnesses]
    \cup
    [fhelp : {TRUE}, fdelta : {FALSE}, toggle : BOOLEAN,
     screen_specified : {<<>>, <<MaxScreens>>},
     crtc_specified : {-1},
     temp_arg : {DELTA_MIN, 3000}, brightness_arg : {DELTA_MIN * BrightnessUnit}]

NoTemp == [temp |-> 0, brightness |-> 0]

\* The scheduler's variables while the scheduler is not what runs.
LoopIdle ==
    /\ now = None /\ monthly_times = None /\ last_minute = <<>>
    /\ stdin = "none" /\ sched = None /\ napply = 0 /\ ticks = 0

InitXsct ==
    /\ LoopIdle
    /\ fn_pc = "idle" /\ fn_in = None /\ fn_out = None
    /\ gamma \in Displays
    /\ args \in XsctArgs
    /\ pc = "xsct_start"
    /\ outcome = "running"
    /\ fault = "none"
    /\ cur = 0
    /\ temp = NoTemp
    /\ nreads = 0
    /\ nwrites = 0
    /\ last_write = NeverWritten(gamma)
    /\ reported = <<>>

\* A plausible slip: the index compared with > instead of >=.
ScreenRejectedOffByOne(screen_specified, screens) ==
    Len(screen_specified) > 0 /\ screen_specified[1] > screens

\* Lines 1000-1005.
ScreenRejected(screen_specified, screens) ==
    Len(screen_specified) > 0 /\ screen_specified[1] >= screens

\* Lines 1007-1008.
ScreenFirst ==
    IF Len(args.screen_specified) = 0 THEN 0 ELSE args.screen_specified[1]
ScreenLast ==
    IF Len(args.screen_specified) = 0
    THEN ScreenCount(gamma) - 1 ELSE args.screen_specified[1]

\* The process ends: Ok(()) with a message or none, Err, or a panic.
Exit(how, why) ==
    /\ pc' = "exit"
    /\ outcome' = how
    /\ fault' = why

\* The for loops over screen_first ..= screen_last: on to the next screen,
\* or past the loop.
NextScreen(after) ==
    IF cur < ScreenLast
    THEN /\ cur' = cur + 1
         /\ UNCHANGED <<pc, outcome, fault>>
    ELSE IF after = "exit"
    THEN /\ Exit("ok", "none")
         /\ UNCHANGED cur
    ELSE /\ pc' = after
         /\ UNCHANGED <<cur, outcome, fault>>

\* One call of get_sct_for_screen on screen cur under the plan rp.
ReadsOf(rp) == nreads + rp.served

\* One call of sct_for_screen(conn, cur, crtc_specified, ts) under the plan
\* wp: the first wp.served selected CRTCs get the ramp of ts.
SctForScreen(ts, wp) ==
    /\ gamma' = WriteCrtcs(gamma, cur, args.crtc_specified, ts, wp.served)
    /\ last_write' = LogWrites(last_write, gamma, cur, args.crtc_specified,
                               ts, wp.served)
    /\ nwrites' = nwrites + wp.served

SelCount == Len(SelectedCrtcs(CrtcCount(gamma, cur), args.crtc_specified))
ReadPlans == PortPlans(SelCount, {"gamma"})
WritePlans == PortPlans(SelCount, {"gamma_size", "set_gamma"})

\* Lines 992-1008: usage, the connection, the screen index.
XsctStart ==
    /\ pc = "xsct_start"
    /\ UNCHANGED <<fn_vars, loop_vars, gamma, args, temp, nreads, nwrites, last_write,
                   reported>>
    /\ IF args.fhelp
       THEN Exit("usage", "none") /\ UNCHANGED cur
       ELSE \E connected \in BOOLEAN :
              IF ~connected
              THEN Exit("connect_error", "connect") /\ UNCHANGED cur
              ELSE IF ScreenRejected(args.screen_specified, ScreenCount(gamma))
              THEN Exit("invalid_screen", "none") /\ UNCHANGED cur
              ELSE /\ cur' = ScreenFirst
                   /\ pc' = IF args.toggle THEN "toggle" ELSE "mode"
                   /\ UNCHANGED <<outcome, fault>>

\* A plausible slip: the toggle threshold taken at neutral itself.
ToggleTargetAtNorm(est) ==
    IF est.temp > TEMPERATURE_NORM THEN TEMPERATURE_NIGHT ELSE TEMPERATURE_NORM

\* Lines 1013-1017.
ToggleTarget(est) ==
    IF est.temp > (TEMPERATURE_NORM - 100)
    THEN TEMPERATURE_NIGHT ELSE TEMPERATURE_NORM

\* Lines 1010-1029, one screen of the loop.  roots[screen], the first
\* statement of get_sct_for_screen and of sct_for_screen, panics on an index
\* that is no screen.
XsctToggleScreen ==
    /\ pc = "toggle"
    /\ UNCHANGED <<fn_vars, loop_vars, args, temp, reported>>
    /\ IF cur \notin DOMAIN gamma
       THEN /\ Exit("panic", "roots")
            /\ UNCHANGED <<gamma, cur, nreads, nwrites, last_write>>
       ELSE \E rp \in ReadPlans :
         /\ nreads' = ReadsOf(rp)
         /\ IF rp.kind = "panic"
            THEN /\ Exit("panic", rp.fault)
                 /\ UNCHANGED <<gamma, cur, nwrites, last_write>>
            ELSE LET est == get_sct_for_screen(gamma, cur, args.crtc_specified)
                     ts == [temp |-> ToggleTarget(est),
                            brightness |-> est.brightness]
                 IN  \E wp \in WritePlans :
                       /\ SctForScreen(ts, wp)
                       /\ IF wp.kind = "panic"
                          THEN Exit("panic", wp.fault) /\ UNCHANGED cur
                          ELSE NextScreen("mode")

\* A plausible slip: bound_temp not called in absolute mode.
AbsoluteTempUnbounded(t) ==
    IF t.temp = 0 THEN [t EXCEPT !.temp = TEMPERATURE_NORM] ELSE t

\* Lines 1052-1056.
AbsoluteTemp(t) ==
    IF t.temp = 0 THEN [t EXCEPT !.temp = TEMPERATURE_NORM] ELSE bound_temp(t)

\* Line 1062: a delta is missing.
DeltaIncomplete(t) ==
    t.temp = DELTA_MIN \/ FEq(t.brightness, DELTA_MIN * BrightnessUnit)

\* A plausible slip: the "no temperature" test made against 0.
ReportModeOnZero(t, fdelta) == t.temp = 0 /\ ~fdelta

\* Line 1040: no temperature and no delta flag.
ReportMode(t, fdelta) == t.temp = DELTA_MIN /\ ~fdelta

\* Lines 1031-1065: the local temp and the mode the arguments select.
XsctMode ==
    /\ pc = "mode"
    /\ UNCHANGED <<fn_vars, loop_vars, gamma, args, nreads, nwrites, last_write,
                   reported>>
    /\ LET t == [temp |-> args.temp_arg,
                 brightness |->
                     IF FEq(args.brightness_arg, DELTA_MIN * BrightnessUnit)
                        /\ ~args.fdelta
                     THEN BrightnessUnit ELSE args.brightness_arg]
       IN  IF ReportMode(t, args.fdelta)
           THEN /\ temp' = t
                /\ pc' = "report"
                /\ cur' = ScreenFirst
                /\ UNCHANGED <<outcome, fault>>
           ELSE IF ~args.fdelta
           THEN /\ temp' = AbsoluteTemp(t)
                /\ pc' = "absolute"
                /\ cur' = ScreenFirst
                /\ UNCHANGED <<outcome, fault>>
           ELSE IF DeltaIncomplete(t)
           THEN /\ temp' = t
                /\ Exit("incomplete_delta", "none")
                /\ UNCHANGED cur
           ELSE /\ temp' = t
                /\ pc' = "delta"
                /\ cur' = ScreenFirst
                /\ UNCHANGED <<outcome, fault>>

\* Lines 1042-1048, one screen of the loop.
XsctReportScreen ==
    /\ pc = "report"
    /\ UNCHANGED <<fn_vars, loop_vars, gamma, args, temp, nwrites, last_write>>
    /\ IF cur \notin DOMAIN gamma
       THEN /\ Exit("panic", "roots")
            /\ UNCHANGED <<cur, nreads, reported>>
       ELSE \E rp \in ReadPlans :
         /\ nreads' = ReadsOf(rp)
         /\ IF rp.kind = "panic"
            THEN /\ Exit("panic", rp.fault)
                 /\ UNCHANGED <<cur, reported>>
            ELSE LET est == get_sct_for_screen(gamma, cur, args.crtc_specified)
                 IN  /\ reported' = Append(reported,
                                           <<cur, est.temp, est.brightness>>)
                     /\ NextScreen("exit")

\* Lines 1057-1059, one screen of the loop.
XsctAbsoluteScreen ==
    /\ pc = "absolute"
    /\ UNCHANGED <<fn_vars, loop_vars, args, temp, nreads, reported>>
    /\ IF cur \notin DOMAIN gamma
       THEN /\ Exit("panic", "roots")
            /\ UNCHANGED <<gamma, cur, nwrites, last_write>>
       ELSE \E wp \in WritePlans :
         /\ SctForScreen(temp, wp)
         /\ IF wp.kind = "panic"
            THEN Exit("panic", wp.fault) /\ UNCHANGED cur
            ELSE NextScreen("exit")

\* Lines 1066-1072, one screen of the loop.  The i32 addition of line 1068
\* panics on overflow in a build with overflow checks and wraps in one
\* without.
XsctDeltaScreen ==
    /\ pc = "delta"
    /\ UNCHANGED <<fn_vars, loop_vars, args, temp, reported>>
    /\ IF cur \notin DOMAIN gamma
       THEN /\ Exit("panic", "roots")
            /\ UNCHANGED <<gamma, cur, nreads, nwrites, last_write>>
       ELSE \E rp \in ReadPlans :
         /\ nreads' = ReadsOf(rp)
         /\ IF rp.kind = "panic"
            THEN /\ Exit("panic", rp.fault)
                 /\ UNCHANGED <<gamma, cur, nwrites, last_write>>
            ELSE LET est == get_sct_for_screen(gamma, cur, args.crtc_specified)
                 IN  \E checked \in IF AddOverflows(est.temp, temp.temp)
                                     THEN BOOLEAN ELSE {FALSE} :
                       IF checked
                       THEN /\ Exit("panic", "overflow")
                            /\ UNCHANGED <<gamma, cur, nwrites, last_write>>
                       ELSE LET tempd == bound_temp(
                                    [temp |-> WrappingAdd(est.temp, temp.temp),
                                     brightness |-> FAdd(est.brightness,
                                                         temp.brightness)])
                            IN  \E wp \in WritePlans :
                                  /\ SctForScreen(tempd, wp)
                                  /\ IF wp.kind = "panic"
                                     THEN Exit("panic", wp.fault)
                                          /\ UNCHANGED cur
                                     ELSE NextScreen("exit")

NextXsct ==
    \/ XsctStart
    \/ XsctToggleScreen
    \/ XsctMode
    \/ XsctReportScreen
    \/ XsctAbsoluteScreen
    \/ XsctDeltaScreen

SpecXsct == InitXsct /\ [][NextXsct]_vars

---------------------------------------------------------------------------
(* colorwarm: the sunrise/sunset table and the day window                  *)

DAYS_PER_MONTH == 30

\* The values the arms of get_longitude_offset return, in minutes.
LongitudeOffsets ==
    {-600, -570, -540, -480, -420, -360, -300, -270, -240, -210, -180, -120,
     -60, -30, 0, 15, 30, 45, 60, 75, 105, 120, 135, 142, 150, 157, 165, 180,
     187, 195, 202, 210, 240, 255, 268}

\* A plausible slip: the offset subtracted from the sunsets.
new_for_timezone_mirrored(longitude_offset) ==
    LET sunrise == <<8 * 60 + 40, 7 * 60 + 57, 6 * 60 + 57, 6 * 60 + 49,
                     5 * 60 + 54, 5 * 60 + 29, 5 * 60 + 47, 6 * 60 + 31,
                     7 * 60 + 10, 8 * 60 + 6, 7 * 60 + 59, 8 * 60 + 39>>
        sunset == <<17 * 60 + 5, 17 * 60 + 56, 18 * 60 + 46, 20 * 60 + 37,
                    21 * 60 + 24, 21 * 60 + 56, 21 * 60 + 48, 21 * 60 + 1,
                    19 * 60 + 55, 18 * 60 + 49, 16 * 60 + 54, 16 * 60 + 36>>
    IN  [sunrise |-> [m \in 0 .. 11 |-> sunrise[m + 1] + longitude_offset],
         sunset |-> [m \in 0 .. 11 |-> sunset[m + 1] - longitude_offset]]

\* MonthlyTimes::new_for_timezone once get_longitude_offset has answered;
\* the arrays sunrise[0..11] and sunset[0..11] are functions on 0 .. 11.
new_for_timezone(longitude_offset) ==
    LET sunrise == <<8 * 60 + 40, 7 * 60 + 57, 6 * 60 + 57, 6 * 60 + 49,
                     5 * 60 + 54, 5 * 60 + 29, 5 * 60 + 47, 6 * 60 + 31,
                     7 * 60 + 10, 8 * 60 + 6, 7 * 60 + 59, 8 * 60 + 39>>
        sunset == <<17 * 60 + 5, 17 * 60 + 56, 18 * 60 + 46, 20 * 60 + 37,
                    21 * 60 + 24, 21 * 60 + 56, 21 * 60 + 48, 21 * 60 + 1,
                    19 * 60 + 55, 18 * 60 + 49, 16 * 60 + 54, 16 * 60 + 36>>
    IN  [sunrise |-> [m \in 0 .. 11 |-> sunrise[m + 1] + longitude_offset],
         sunset |-> [m \in 0 .. 11 |-> sunset[m + 1] + longitude_offset]]

\* f32::round of the rational num / den (den > 0): to the nearest integer,
\* halves away from zero.
RoundDiv(num, den) ==
    IF num >= 0
    THEN (2 * num + den) \div (2 * den)
    ELSE -(((-2) * num + den) \div (2 * den))

\* Lines 783-792: a + (b - a) * (day_in_month / 30.0), rounded.  The source
\* evaluates it in f32; for every entry of the table under every offset of
\* LongitudeOffsets the f32 result rounds to the same integer as the exact
\* value taken here (tools/check_smoothing.py replays the f32 evaluation).
Interpolate(times, month1, month2, day_in_month) ==
    RoundDiv(DAYS_PER_MONTH * times[month1]
                 + (times[month2] - times[month1]) * day_in_month,
             DAYS_PER_MONTH)

\* A plausible slip: the first half of the month counted from day + 16.
get_smoothed_day_times_from_16(mt, month, day) ==
    LET month_index == month - 1
        first_half == day <= 15
        month1 == IF first_half
                  THEN (IF month_index = 0 THEN 11 ELSE month_index - 1)
                  ELSE month_index
        month2 == IF first_half THEN month_index ELSE (month_index + 1) % 12
        day_in_month == IF first_half THEN day + 16 ELSE day - 15
    IN  [sunrise |-> Interpolate(mt.sunrise, month1, month2, day_in_month),
         sunset |-> Interpolate(mt.sunset, month1, month2, day_in_month)]

\* A plausible slip: December's next month not wrapped to January.
get_smoothed_day_times_no_wrap(mt, month, day) ==
    LET month_index == month - 1
        first_half == day <= 15
        month1 == IF first_half
                  THEN (IF month_index = 0 THEN 11 ELSE month_index - 1)
                  ELSE month_index
        month2 == IF first_half THEN month_index
                  ELSE (IF month_index = 11 THEN 11 ELSE month_index + 1)
        day_in_month == IF first_half THEN day + 15 ELSE day - 15
    IN  [sunrise |-> Interpolate(mt.sunrise, month1, month2, day_in_month),
         sunset |-> Interpolate(mt.sunset, month1, month2, day_in_month)]

\* Lines 764-795.
get_smoothed_day_times(mt, month, day) ==
    LET month_index == month - 1
        first_half == day <= 15
        month1 == IF first_half
                  THEN (IF month_index = 0 THEN 11 ELSE month_index - 1)
                  ELSE month_index
        month2 == IF first_half THEN month_index ELSE (month_index + 1) % 12
        day_in_month == IF first_half THEN day + 15 ELSE day - 15
    IN  [sunrise |-> Interpolate(mt.sunrise, month1, month2, day_in_month),
         sunset |-> Interpolate(mt.sunset, month1, month2, day_in_month)]

---------------------------------------------------------------------------
(* colorwarm: main and its minute-driven loop                              *)

\* Minutes the wall clock may advance during a run.
MaxTicks == 2

\* The longitude offsets tried: Honolulu's, Brussels' and the largest.
LoopOffsets == {-600, 0, 268}

\* The instants a run starts at: the last minutes of a year and of a
\* February 28th, and the minutes before a June sunrise and a January sunset
\* in Brussels.
LoopStarts ==
    {[month |-> 12, day |-> 31, minutes |-> 1438],
     [month |-> 2, day |-> 28, minutes |-> 1439],
     [month |-> 6, day |-> 15, minutes |-> 328],
     [month |-> 1, day |-> 15, minutes |-> 1023]}

\* The displays tried: 1 .. MaxScreens screens of MaxCrtc CRTCs each, all
\* showing the neutral ramp.
LoopDisplays ==
    { [s \in 0 .. (n - 1) |-> [c \in 0 .. (MaxCrtc - 1) |-> SeedRamps[1]]]
      : n \in 1 .. MaxScreens }

\* Lines 1109-1112.
LoopArgs == [help : BOOLEAN, daemon : BOOLEAN, verbose : BOOLEAN]

Init ==
    /\ fn_pc = "idle" /\ fn_in = None /\ fn_out = None
    /\ gamma \in LoopDisplays
    /\ args \in LoopArgs
    /\ pc = "main"
    /\ outcome = "running"
    /\ fault = "none"
    /\ cur = 0
    /\ temp = NoTemp
    /\ nreads = 0
    /\ nwrites = 0
    /\ last_write = NeverWritten(gamma)
    /\ reported = <<>>
    /\ now \in LoopStarts
    /\ monthly_times = None
    /\ last_minute = <<>>
    /\ stdin = "none"
    /\ sched = None
    /\ napply = 0
    /\ ticks = 0

\* The positions of main from the first update on.
LoopPcs ==
    {"first_update", "first_screens", "read_minute", "loop_top", "poll",
     "update", "screens"}

\* Where manage_brightness_cycle returns to: line 1184 after the call of
\* line 1181, the top of the loop after the call of line 1204.
AfterCycle(p) ==
    IF p \in {"first_update", "first_screens"} THEN "read_minute"
    ELSE "loop_top"

\* get_current_minute.
get_current_minute(clock) == clock.minutes % 60

\* The local calendar: the instant one minute after clock; leap tells
\* whether the year has a February 29th.
DaysIn(month, leap) ==
    IF month = 2 THEN (IF leap THEN 29 ELSE 28)
    ELSE IF month \in {4, 6, 9, 11} THEN 30
    ELSE 31

MinuteAfter(clock, leap) ==
    IF clock.minutes + 1 < MinutesPerDay
    THEN [clock EXCEPT !.minutes = @ + 1]
    ELSE IF clock.day < DaysIn(clock.month, leap)
    THEN [clock EXCEPT !.minutes = 0, !.day = @ + 1]
    ELSE [month |-> (clock.month % 12) + 1, day |-> 1, minutes |-> 0]

\* Lines 846-861: what manage_brightness_cycle prints after the apply.
PrintOf(ok) ==
    IF ~ok
    THEN (IF args.verbose /\ ~args.daemon THEN "error" ELSE "none")
    ELSE IF args.verbose /\ ~args.daemon THEN "setting"
    ELSE IF ~args.daemon THEN "brief"
    ELSE "none"

\* Lines 1109-1178: the flags, the timezone, the table, the daemon.
MainStart ==
    /\ pc = "main"
    /\ UNCHANGED <<fn_vars, gamma, args, cur, temp, nreads, nwrites,
                   last_write, reported, now, last_minute, stdin, sched,
                   napply, ticks>>
    /\ IF args.help
       THEN Exit("usage", "none") /\ UNCHANGED monthly_times
       ELSE \E longitude_offset \in LoopOffsets,
               start \in {"ok", "log_file", "daemonize"} :
              /\ monthly_times' = new_for_timezone(longitude_offset)
              /\ IF args.daemon /\ start = "log_file"
                 THEN Exit("panic", "log_file")
                 ELSE IF args.daemon /\ start = "daemonize"
                 THEN Exit("daemon_error", "daemonize")
                 ELSE /\ pc' = "first_update"
                      /\ UNCHANGED <<outcome, fault>>

\* manage_brightness_cycle up to the connection of xsct_set_temperature
\* (lines 815-846 and 313-319).  A failed connection is the Err that line
\* 846 takes, and the function returns.
ManageBrightnessCycle ==
    /\ pc \in {"first_update", "update"}
    /\ UNCHANGED <<fn_vars, gamma, args, nreads, nwrites, last_write,
                   reported, now, monthly_times, last_minute, stdin, ticks>>
    /\ napply' = napply + 1
    /\ LET w == get_smoothed_day_times(monthly_times, now.month, now.day)
           k == TargetKelvin(now.minutes, w.sunrise, w.sunset)
           seen == [current_minutes |-> now.minutes, month |-> now.month,
                    day |-> now.day, sunrise |-> w.sunrise,
                    sunset |-> w.sunset, branch |-> k.branch,
                    kelvin |-> k.kelvin]
       IN  IF k.panicked
           THEN /\ Exit("panic", "div_zero")
                /\ sched' = [seen |-> seen, printed |-> "none"]
                /\ UNCHANGED <<cur, temp>>
           ELSE \E connected \in BOOLEAN :
                  IF ~connected
                  THEN /\ pc' = AfterCycle(pc)
                       /\ fault' = "connect"
                       /\ sched' = [seen |-> seen, printed |-> PrintOf(FALSE)]
                       /\ UNCHANGED <<outcome, cur, temp>>
                  ELSE /\ pc' = IF pc = "first_update" THEN "first_screens"
                                ELSE "screens"
                       /\ fault' = "none"
                       /\ sched' = [seen |-> seen, printed |-> "pending"]
                       /\ temp' = [temp |-> IF k.kelvin = 0
                                            THEN TEMPERATURE_NORM
                                            ELSE k.kelvin,
                                   brightness |-> BrightnessUnit]
                       /\ cur' = 0
                       /\ UNCHANGED outcome

\* The display after a call of sct_for_screen whose requests for the CRTCs
\* of the set rejected were answered by an X error: the request is void,
\* its cookie is dropped at line 287, and the error is never looked at.
\* The server is taken to accept every request of a call or to reject them
\* all.
RejectWrites(before, after, s, rejected) ==
    [after EXCEPT ![s] = [c \in DOMAIN after[s] |->
                            IF c \in rejected THEN before[s][c]
                            ELSE after[s][c]]]

\* One turn of the for loop of lines 321-323, sct_for_screen(&conn, cur, -1,
\* temp, false), and after the last screen the rest of
\* manage_brightness_cycle (lines 850-863).
CycleScreen ==
    /\ pc \in {"first_screens", "screens"}
    /\ UNCHANGED <<fn_vars, args, temp, nreads, reported, now, monthly_times,
                   last_minute, stdin, napply, ticks>>
    /\ \E wp \in PortPlans(CrtcCount(gamma, cur), {"gamma_size", "set_gamma"}) :
         \E rejected \in {{}, 0 .. (wp.served - 1)} :
           /\ gamma' = RejectWrites(gamma,
                                    WriteCrtcs(gamma, cur, -1, temp, wp.served),
                                    cur, rejected)
           /\ last_write' = LogWrites(last_write, gamma, cur, -1, temp,
                                      wp.served)
           /\ nwrites' = nwrites + wp.served
           /\ IF wp.kind = "panic"
              THEN /\ Exit("panic", wp.fault)
                   /\ UNCHANGED <<cur, sched>>
              ELSE /\ fault' = IF rejected # {} THEN "rejected" ELSE fault
                   /\ UNCHANGED outcome
                   /\ IF cur + 1 < ScreenCount(gamma)
                      THEN /\ cur' = cur + 1
                           /\ UNCHANGED <<pc, sched>>
                      ELSE /\ pc' = AfterCycle(pc)
                           /\ sched' = [sched EXCEPT !.printed = PrintOf(TRUE)]
                           /\ UNCHANGED cur

\* Line 1184.
ReadLastMinute ==
    /\ pc = "read_minute"
    /\ last_minute' = <<get_current_minute(now)>>
    /\ pc' = "loop_top"
    /\ UNCHANGED <<fn_vars, gamma, args, outcome, fault, cur, temp, nreads,
                   nwrites, last_write, reported, now, monthly_times, stdin,
                   sched, napply, ticks>>

\* A plausible slip: the ESC check made inside the loop over the screens
\* too.
CheckEscDuringApply ==
    /\ pc \in {"loop_top", "screens"}
    /\ UNCHANGED <<fn_vars, gamma, args, cur, temp, nreads, nwrites,
                   last_write, reported, now, monthly_times, last_minute,
                   sched, napply, ticks>>
    /\ IF args.daemon
       THEN /\ pc' = "poll"
            /\ UNCHANGED <<outcome, fault, stdin>>
       ELSE /\ stdin' = "none"
            /\ IF stdin = "esc"
               THEN Exit("escaped", fault)
               ELSE /\ pc' = "poll"
                    /\ UNCHANGED <<outcome, fault>>

\* Lines 1189-1193 with check_esc_key: in the foreground, when stdin is a
\* terminal (tty), one waiting byte is read and compared with ESC.
CheckEsc ==
    /\ pc = "loop_top"
    /\ UNCHANGED <<fn_vars, gamma, args, cur, temp, nreads, nwrites,
                   last_write, reported, now, monthly_times, last_minute,
                   sched, napply, ticks>>
    /\ IF args.daemon
       THEN /\ pc' = "poll"
            /\ UNCHANGED <<outcome, fault, stdin>>
       ELSE \E tty \in BOOLEAN :
              IF ~tty
              THEN /\ pc' = "poll"
                   /\ UNCHANGED <<outcome, fault, stdin>>
              ELSE /\ stdin' = "none"
                   /\ IF stdin = "esc"
                      THEN Exit("escaped", fault)
                      ELSE /\ pc' = "poll"
                           /\ UNCHANGED <<outcome, fault>>

\* A plausible slip: the update made at every iteration.
PollMinuteEveryIteration ==
    /\ pc = "poll"
    /\ last_minute' = <<get_current_minute(now)>>
    /\ pc' = "update"
    /\ UNCHANGED <<fn_vars, gamma, args, outcome, fault, cur, temp, nreads,
                   nwrites, last_write, reported, now, monthly_times, stdin,
                   sched, napply, ticks>>

\* Lines 1196-1203: the sleep, the minute read, the comparison.
PollMinute ==
    /\ pc = "poll"
    /\ LET current_minute == get_current_minute(now)
       IN  IF current_minute # last_minute[1]
           THEN /\ last_minute' = <<current_minute>>
                /\ pc' = "update"
           ELSE /\ pc' = "loop_top"
                /\ UNCHANGED last_minute
    /\ UNCHANGED <<fn_vars, gamma, args, outcome, fault, cur, temp, nreads,
                   nwrites, last_write, reported, now, monthly_times, stdin,
                   sched, napply, ticks>>

\* The wall clock passes to the next minute.
Tick ==
    /\ pc \in LoopPcs
    /\ ticks < MaxTicks
    /\ ticks' = ticks + 1
    /\ \E leap \in BOOLEAN : now' = MinuteAfter(now, leap)
    /\ UNCHANGED <<fn_vars, run_vars, monthly_times, last_minute, stdin,
                   sched, napply>>

\* A key is pressed on the terminal of a foreground run.
KeyPress ==
    /\ pc \in LoopPcs
    /\ ~args.daemon
    /\ stdin = "none"
    /\ stdin' \in {"esc", "other"}
    /\ UNCHANGED <<fn_vars, run_vars, now, monthly_times, last_minute, sched,
                   napply, ticks>>

Next ==
    \/ MainStart
    \/ ManageBrightnessCycle
    \/ CycleScreen
    \/ ReadLastMinute
    \/ CheckEsc
    \/ PollMinute
    \/ Tick
    \/ KeyPress

Spec == Init /\ [][Next]_vars

---------------------------------------------------------------------------
(* The Kelvin computation and bound_temp as functions of their arguments   *)

\* Bounds of the day windows and of the TempStatus values tried.
MaxShortDay == 6
MaxInverted == 2
BoundMargin == 3

\* Sunrises tried: before midnight's minute 0, at it, and two of the table.
SunriseSamples == {-1, 0, 329, 520}

\* Day lengths tried: inverted, empty, the shortest ones, and three lengths
\* of the built-in table's order of magnitude (even and odd).
DayLengthSamples == ((-MaxInverted) .. MaxShortDay) \cup {505, 600, 987}

KelvinInputs ==
    [f : {"kelvin"}, current_minutes : 0 .. (MinutesPerDay - 1),
     sunrise : SunriseSamples, day_length : DayLengthSamples]

\* Temperatures tried: around 0, around the floor, around neutral, and far.
TempSamples ==
    ((-BoundMargin - 2) .. BoundMargin)
    \cup ((TEMPERATURE_ZERO - BoundMargin) .. (TEMPERATURE_ZERO + BoundMargin))
    \cup ((TEMPERATURE_NORM - BoundMargin) .. (TEMPERATURE_NORM + BoundMargin))
    \cup {DELTA_MIN, 100, 4500, 10000, MaxI32}

\* Brightnesses tried, in thousandths: around 0.0, around 1.0, and NaN.
BrightnessSamples ==
    ((-BoundMargin) .. BoundMargin)
    \cup ((BrightnessUnit - BoundMargin) .. (BrightnessUnit + BoundMargin))
    \cup {DELTA_MIN * BrightnessUnit, -200, 500, 1500, NaN}

BoundInputs ==
    [f : {"bound"}, temp : TempSamples, brightness : BrightnessSamples]

\* The program is not running while a function is studied on its own.
RunIdle ==
    /\ LoopIdle
    /\ gamma = <<>> /\ args = None /\ pc = "idle" /\ outcome = "running"
    /\ fault = "none" /\ cur = 0 /\ temp = NoTemp /\ nreads = 0
    /\ nwrites = 0 /\ last_write = <<>> /\ reported = <<>>

InitKelvin ==
    /\ RunIdle
    /\ fn_pc = "ready"
    /\ fn_in \in KelvinInputs
    /\ fn_out = None

KelvinApply ==
    /\ fn_pc = "ready"
    /\ fn_in.f = "kelvin"
    /\ fn_out' = TargetKelvin(fn_in.current_minutes, fn_in.sunrise,
                              fn_in.sunrise + fn_in.day_length)
    /\ fn_pc' = "done"
    /\ UNCHANGED <<fn_in, run_vars, loop_vars>>

NextKelvin == KelvinApply

SpecKelvin == InitKelvin /\ [][NextKelvin]_vars

InitBound ==
    /\ RunIdle
    /\ fn_pc = "ready"
    /\ fn_in \in BoundInputs
    /\ fn_out = None

BoundApply ==
    /\ fn_pc = "ready"
    /\ fn_in.f = "bound"
    /\ fn_out' = bound_temp([temp |-> fn_in.temp,
                             brightness |-> fn_in.brightness])
    /\ fn_pc' = "done"
    /\ UNCHANGED <<fn_in, run_vars, loop_vars>>

NextBound == BoundApply

SpecBound == InitBound /\ [][NextBound]_vars

---------------------------------------------------------------------------
(* Synthesis followed by estimation (the round trip)                       *)

\* For a ramp size and a Kelvin value k, at brightness 1.0: peak is the last
\* entry of the red, green and blue ramps that lines 225-284 synthesize for
\* k; fit_gb, fit_g and fit_cool are the three f64 expressions of lines
\* 184-199 evaluated on that peak read from one CRTC, after the conversion
\* (temp + 0.5) as i32 of line 206.  Tabulated by tools/gen_roundtrip.py.
RoundTripTable ==
    (256 :> (
      (700 :> [peak |-> <<65279, 0, 0>>, fit_gb |-> 1340, fit_g |-> 876, fit_cool |-> 6500]) @@
      (701 :> [peak |-> <<65279, 0, 0>>, fit_gb |-> 1340, fit_g |-> 876, fit_cool |-> 6500]) @@
      (702 :> [peak |-> <<65279, 0, 0>>, fit_gb |-> 1340, fit_g |-> 876, fit_cool |-> 6500]) @@
      (703 :> [peak |-> <<65279, 0, 0>>, fit_gb |-> 1340, fit_g |-> 876, fit_cool |-> 6500]) @@
      (704 :> [peak |-> <<65279, 0, 0>>, fit_gb |-> 1340, fit_g |-> 876, fit_cool |-> 6500]) @@
      (705 :> [peak |-> <<65279, 0, 0>>, fit_gb |-> 1340, fit_g |-> 876, fit_cool |-> 6500]) @@
      (706 :> [peak |-> <<65279, 0, 0>>, fit_gb |-> 1340, fit_g |-> 876, fit_cool |-> 6500]) @@
      (707 :> [peak |-> <<65279, 0, 0>>, fit_gb |-> 1340, fit_g |-> 876, fit_cool |-> 6500]) @@
      (708 :> [peak |-> <<65279, 0, 0>>, fit_gb |-> 1340, fit_g |-> 876, fit_cool |-> 6500]) @@
      (709 :> [peak |-> <<65279, 0, 0>>, fit_gb |-> 1340, fit_g |-> 876, fit_cool |-> 6500]) @@
      (710 :> [peak |-> <<65279, 0, 0>>, fit_gb |-> 1340, fit_g |-> 876, fit_cool |-> 6500]) @@
      (711 :> [peak |-> <<65279, 0, 0>>, fit_gb |-> 1340, fit_g |-> 876, fit_cool |-> 6500]) @@
      (712 :> [peak |-> <<65279, 0, 0>>, fit_gb |-> 1340, fit_g |-> 876, fit_cool |-> 6500]) @@
      (713 :> [peak |-> <<65279, 0, 0>>, fit_gb |-> 1340, fit_g |-> 876, fit_cool |-> 6500]) @@
      (714 :> [peak |-> <<65279, 0, 0>>, fit_gb |-> 1340, fit_g |-> 876, fit_cool |-> 6500]) @@
      (715 :> [peak |-> <<65279, 0, 0>>, fit_gb |-> 1340, fit_g |-> 876, fit_cool |-> 6500]) @@
      (716 :> [peak |-> <<65279, 0, 0>>, fit_gb |-> 1340, fit_g |-> 876, fit_cool |-> 6500]) @@
      (717 :> [peak |-> <<65279, 0, 0>>, fit_gb |-> 1340, fit_g |-> 876, fit_cool |-> 6500]) @@
      (718 :> [peak |-> <<65279, 0, 0>>, fit_gb |-> 1340, fit_g |-> 876, fit_cool |-> 6500]) @@
      (719 :> [peak |-> <<65279, 0, 0>>, fit_gb |-> 1340, fit_g |-> 876, fit_cool |-> 6500]) @@
      (720 :> [peak |-> <<65279, 0, 0>>, fit_gb |-> 1340, fit_g |-> 876, fit_cool |-> 6500]) @@
      (750 :> [peak |-> <<65279, 0, 0>>, fit_gb |-> 1340, fit_g |-> 876, fit_cool |-> 6500]) @@
      (860 :> [peak |-> <<65279, 0, 0>>, fit_gb |-> 1340, fit_g |-> 876, fit_cool |-> 6500]) @@
      (861 :> [peak |-> <<65279, 0, 0>>, fit_gb |-> 1340, fit_g |-> 876, fit_cool |-> 6500]) @@
      (862 :> [peak |-> <<65279, 0, 0>>, fit_gb |-> 1340, fit_g |-> 876, fit_cool |-> 6500]) @@
      (863 :> [peak |-> <<65279, 0, 0>>, fit_gb |-> 1340, fit_g |-> 876, fit_cool |-> 6500]) @@
      (864 :> [peak |-> <<65279, 0, 0>>, fit_gb |-> 1340, fit_g |-> 876, fit_cool |-> 6500]) @@
      (865 :> [peak |-> <<65279, 0, 0>>, fit_gb |-> 1340, fit_g |-> 876, fit_cool |-> 6500]) @@
      (866 :> [peak |-> <<65279, 0, 0>>, fit_gb |-> 1340, fit_g |-> 876, fit_cool |-> 6500]) @@
      (867 :> [peak |-> <<65279, 0, 0>>, fit_gb |-> 1340, fit_g |-> 876, fit_cool |-> 6500]) @@
      (868 :> [peak |-> <<65279, 0, 0>>, fit_gb |-> 1340, fit_g |-> 876, fit_cool |-> 6500]) @@
      (869 :> [peak |-> <<65279, 0, 0>>, fit_gb |-> 1340, fit_g |-> 876, fit_cool |-> 6500]) @@
      (870 :> [peak |-> <<65279, 0, 0>>, fit_gb |-> 1340, fit_g |-> 876, fit_cool |-> 6500]) @@
      (871 :> [peak |-> <<65279, 0, 0>>, fit_gb |-> 1340, fit_g |-> 876, fit_cool |-> 6500]) @@
      (872 :> [peak |-> <<65279, 0, 0>>, fit_gb |-> 1340, fit_g |-> 876, fit_cool |-> 6500]) @@
      (873 :> [peak |-> <<65279, 0, 0>>, fit_gb |-> 1340, fit_g |-> 876, fit_cool |-> 6500]) @@
      (874 :> [peak |-> <<65279, 0, 0>>, fit_gb |-> 1340, fit_g |-> 876, fit_cool |-> 6500]) @@
      (875 :> [peak |-> <<65279, 0, 0>>, fit_gb |-> 1340, fit_g |-> 876, fit_cool |-> 6500]) @@
      (876 :> [peak |-> <<65279, 48, 0>>, fit_gb |-> 1340, fit_g |-> 876, fit_cool |-> 6497]) @@
      (877 :> [peak |-> <<65279, 154, 0>>, fit_gb |-> 1341, fit_g |-> 877, fit_cool |-> 6491]) @@
      (878 :> [peak |-> <<65279, 259, 0>>, fit_gb |-> 1342, fit_g |-> 878, fit_cool |-> 6486]) @@
      (879 :> [peak |-> <<65279, 364, 0>>, fit_gb |-> 1344, fit_g |-> 879, fit_cool |-> 6480]) @@
      (880 :> [peak |-> <<65279, 468, 0>>, fit_gb |-> 1345, fit_g |-> 880, fit_cool |-> 6474]) @@
      (881 :> [peak |-> <<65279, 571, 0>>, fit_gb |-> 1346, fit_g |-> 881, fit_cool |-> 6469]) @@
      (882 :> [peak |-> <<65279, 674, 0>>, fit_gb |-> 1347, fit_g |-> 882, fit_cool |-> 6463]) @@
      (883 :> [peak |-> <<65279, 776, 0>>, fit_gb |-> 1348, fit_g |-> 883, fit_cool |-> 6458]) @@
      (884 :> [peak |-> <<65279, 878, 0>>, fit_gb |-> 1349, fit_g |-> 884, fit_cool |-> 6452]) @@
      (885 :> [peak |-> <<65279, 979, 0>>, fit_gb |-> 1350, fit_g |-> 885, fit_cool |-> 6447]) @@
      (886 :> [peak |-> <<65279, 1079, 0>>, fit_gb |-> 1351, fit_g |-> 886, fit_cool |-> 6442]) @@
      (887 :> [peak |-> <<65279, 1180, 0>>, fit_gb |-> 1352, fit_g |-> 887, fit_cool |-> 6437]) @@
      (888 :> [peak |-> <<65279, 1279, 0>>, fit_gb |-> 1354, fit_g |-> 888, fit_cool |-> 6431]) @@
      (889 :> [peak |-> <<65279, 1378, 0>>, fit_gb |-> 1355, fit_g |-> 889, fit_cool |-> 6426]) @@
      (890 :> [peak |-> <<65279, 1477, 0>>, fit_gb |-> 1356, fit_g |-> 890, fit_cool |-> 6421]) @@
      (1000 :> [peak |-> <<65279, 10001, 0>>, fit_gb |-> 1457, fit_g |-> 1000, fit_cool |-> 6113]) @@
      (1250 :> [peak |-> <<65279, 21314, 0>>, fit_gb |-> 1617, fit_g |-> 1250, fit_cool |-> 5926]) @@
      (1500 :> [peak |-> <<65279, 28307, 0>>, fit_gb |-> 1732, fit_g |-> 1500, fit_cool |-> 5872]) @@
      (1750 :> [peak |-> <<65279, 33382, 0>>, fit_gb |-> 1824, fit_g |-> 1750, fit_cool |-> 5848]) @@
      (2000 :> [peak |-> <<65279, 37368, 4633>>, fit_gb |-> 2000, fit_g |-> 2000, fit_cool |-> 5850]) @@
      (2250 :> [peak |-> <<65279, 40651, 11766>>, fit_gb |-> 2250, fit_g |-> 2250, fit_cool |-> 5868]) @@
      (2500 :> [peak |-> <<65279, 43442, 17830>>, fit_gb |-> 2500, fit_g |-> 2500, fit_cool |-> 5889]) @@
      (2750 :> [peak |-> <<65279, 45869, 23104>>, fit_gb |-> 2750, fit_g |-> 2750, fit_cool |-> 5912]) @@
      (3000 :> [peak |-> <<65279, 48016, 27770>>, fit_gb |-> 3000, fit_g |-> 3000, fit_cool |-> 5937]) @@
      (3250 :> [peak |-> <<65279, 49942, 31955>>, fit_gb |-> 3250, fit_g |-> 3250, fit_cool |-> 5964]) @@
      (3500 :> [peak |-> <<65279, 51688, 35747>>, fit_gb |-> 3500, fit_g |-> 3500, fit_cool |-> 5994]) @@
      (3750 :> [peak |-> <<65279, 53284, 39215>>, fit_gb |-> 3750, fit_g |-> 3750, fit_cool |-> 6025]) @@
      (4000 :> [peak |-> <<65279, 54754, 42410>>, fit_gb |-> 4000, fit_g |-> 4000, fit_cool |-> 6059]) @@
      (4250 :> [peak |-> <<65279, 56117, 45371>>, fit_gb |-> 4250, fit_g |-> 4250, fit_cool |-> 6095]) @@
      (4500 :> [peak |-> <<65279, 57387, 48131>>, fit_gb |-> 4500, fit_g |-> 4500, fit_cool |-> 6132]) @@
      (4750 :> [peak |-> <<65279, 58576, 50715>>, fit_gb |-> 4750, fit_g |-> 4750, fit_cool |-> 6172]) @@
      (5000 :> [peak |-> <<65279, 59694, 53144>>, fit_gb |-> 5000, fit_g |-> 5000, fit_cool |-> 6213]) @@
      (5250 :> [peak |-> <<65279, 60749, 55436>>, fit_gb |-> 5250, fit_g |-> 5250, fit_cool |-> 6256]) @@
      (5500 :> [peak |-> <<65279, 61747, 57605>>, fit_gb |-> 5500, fit_g |-> 5500, fit_cool |-> 6301]) @@
      (5750 :> [peak |-> <<65279, 62695, 59664>>, fit_gb |-> 5750, fit_g |-> 5750, fit_cool |-> 6348]) @@
      (6000 :> [peak |-> <<65279, 63596, 61623>>, fit_gb |-> 6000, fit_g |-> 6000, fit_cool |-> 6397]) @@
      (6250 :> [peak |-> <<65279, 64457, 63492>>, fit_gb |-> 6250, fit_g |-> 6250, fit_cool |-> 6448]) @@
      (6490 :> [peak |-> <<65279, 65247, 65209>>, fit_gb |-> 6490, fit_g |-> 6490, fit_cool |-> 6498]) @@
      (6491 :> [peak |-> <<65279, 65250, 65216>>, fit_gb |-> 6491, fit_g |-> 6491, fit_cool |-> 6498]) @@
      (6492 :> [peak |-> <<65279, 65253, 65223>>, fit_gb |-> 6492, fit_g |-> 6492, fit_cool |-> 6498]) @@
      (6493 :> [peak |-> <<65279, 65256, 65230>>, fit_gb |-> 6493, fit_g |-> 6493, fit_cool |-> 6499]) @@
      (6494 :> [peak |-> <<65279, 65260, 65237>>, fit_gb |-> 6494, fit_g |-> 6494, fit_cool |-> 6499]) @@
      (6495 :> [peak |-> <<65279, 65263, 65244>>, fit_gb |-> 6495, fit_g |-> 6495, fit_cool |-> 6499]) @@
      (6496 :> [peak |-> <<65279, 65266, 65251>>, fit_gb |-> 6496, fit_g |-> 6496, fit_cool |-> 6499]) @@
      (6497 :> [peak |-> <<65279, 65269, 65258>>, fit_gb |-> 6497, fit_g |-> 6497, fit_cool |-> 6499]) @@
      (6498 :> [peak |-> <<65279, 65273, 65265>>, fit_gb |-> 6498, fit_g |-> 6498, fit_cool |-> 6500]) @@
      (6499 :> [peak |-> <<65279, 65276, 65272>>, fit_gb |-> 6499, fit_g |-> 6499, fit_cool |-> 6500]) @@
      (6500 :> [peak |-> <<65279, 65279, 65279>>, fit_gb |-> 6500, fit_g |-> 6500, fit_cool |-> 6500]) @@
      (6501 :> [peak |-> <<65268, 65272, 65279>>, fit_gb |-> 6500, fit_g |-> 6498, fit_cool |-> 6501]) @@
      (6502 :> [peak |-> <<65258, 65265, 65279>>, fit_gb |-> 6501, fit_g |-> 6496, fit_cool |-> 6502]) @@
      (6503 :> [peak |-> <<65247, 65258, 65279>>, fit_gb |-> 6501, fit_g |-> 6493, fit_cool |-> 6503]) @@
      (6504 :> [peak |-> <<65236, 65251, 65279>>, fit_gb |-> 6501, fit_g |-> 6491, fit_cool |-> 6504]) @@
      (6505 :> [peak |-> <<65226, 65244, 65279>>, fit_gb |-> 6502, fit_g |-> 6489, fit_cool |-> 6505]) @@
      (6506 :> [peak |-> <<65215, 65237, 65279>>, fit_gb |-> 6502, fit_g |-> 6487, fit_cool |-> 6506]) @@
      (6507 :> [peak |-> <<65204, 65230, 65279>>, fit_gb |-> 6503, fit_g |-> 6485, fit_cool |-> 6507]) @@
      (6508 :> [peak |-> <<65194, 65223, 65279>>, fit_gb |-> 6503, fit_g |-> 6483, fit_cool |-> 6508]) @@
      (6509 :> [peak |-> <<65183, 65216, 65279>>, fit_gb |-> 6503, fit_g |-> 6480, fit_cool |-> 6509]) @@
      (6510 :> [peak |-> <<65172, 65209, 65279>>, fit_gb |-> 6504, fit_g |-> 6478, fit_cool |-> 6510]) @@
      (6750 :> [peak |-> <<62985, 63781, 65279>>, fit_gb |-> 6578, fit_g |-> 6053, fit_cool |-> 6750]) @@
      (7000 :> [peak |-> <<61230, 62635, 65279>>, fit_gb |-> 6639, fit_g |-> 5734, fit_cool |-> 7000]) @@
      (7250 :> [peak |-> <<59808, 61707, 65279>>, fit_gb |-> 6689, fit_g |-> 5490, fit_cool |-> 7250]) @@
      (7500 :> [peak |-> <<58613, 60927, 65279>>, fit_gb |-> 6731, fit_g |-> 5294, fit_cool |-> 7500]) @@
      (7750 :> [peak |-> <<57583, 60254, 65279>>, fit_gb |-> 6768, fit_g |-> 5131, fit_cool |-> 7750]) @@
      (8000 :> [peak |-> <<56676, 59662, 65279>>, fit_gb |-> 6800, fit_g |-> 4993, fit_cool |-> 8000]) @@
      (8250 :> [peak |-> <<55868, 59135, 65279>>, fit_gb |-> 6829, fit_g |-> 4873, fit_cool |-> 8250]) @@
      (8500 :> [peak |-> <<55138, 58658, 65279>>, fit_gb |-> 6855, fit_g |-> 4768, fit_cool |-> 8500]) @@
      (8750 :> [peak |-> <<54473, 58224, 65279>>, fit_gb |-> 6879, fit_g |-> 4674, fit_cool |-> 8750]) @@
      (9000 :> [peak |-> <<53862, 57825, 65279>>, fit_gb |-> 6901, fit_g |-> 4590, fit_cool |-> 9000]) @@
      (9250 :> [peak |-> <<53296, 57456, 65279>>, fit_gb |-> 6922, fit_g |-> 4514, fit_cool |-> 9250]) @@
      (9500 :> [peak |-> <<52771, 57113, 65279>>, fit_gb |-> 6941, fit_g |-> 4445, fit_cool |-> 9500]) @@
      (9750 :> [peak |-> <<52280, 56792, 65279>>, fit_gb |-> 6959, fit_g |-> 4381, fit_cool |-> 9750]) @@
      (9995 :> [peak |-> <<51828, 56497, 65279>>, fit_gb |-> 6976, fit_g |-> 4323, fit_cool |-> 9995]) @@
      (9996 :> [peak |-> <<51826, 56496, 65279>>, fit_gb |-> 6976, fit_g |-> 4323, fit_cool |-> 9996]) @@
      (9997 :> [peak |-> <<51824, 56494, 65279>>, fit_gb |-> 6976, fit_g |-> 4322, fit_cool |-> 9997]) @@
      (9998 :> [peak |-> <<51822, 56493, 65279>>, fit_gb |-> 6976, fit_g |-> 4322, fit_cool |-> 9998]) @@
      (9999 :> [peak |-> <<51820, 56492, 65279>>, fit_gb |-> 6976, fit_g |-> 4322, fit_cool |-> 9999]) @@
      (10000 :> [peak |-> <<51819, 56491, 65279>>, fit_gb |-> 6976, fit_g |-> 4322, fit_cool |-> 10000]))) @@
    (1024 :> (
      (700 :> [peak |-> <<65471, 0, 0>>, fit_gb |-> 1340, fit_g |-> 876, fit_cool |-> 6500]) @@
      (701 :> [peak |-> <<65471, 0, 0>>, fit_gb |-> 1340, fit_g |-> 876, fit_cool |-> 6500]) @@
      (702 :> [peak |-> <<65471, 0, 0>>, fit_gb |-> 1340, fit_g |-> 876, fit_cool |-> 6500]) @@
      (703 :> [peak |-> <<65471, 0, 0>>, fit_gb |-> 1340, fit_g |-> 876, fit_cool |-> 6500]) @@
      (704 :> [peak |-> <<65471, 0, 0>>, fit_gb |-> 1340, fit_g |-> 876, fit_cool |-> 6500]) @@
      (705 :> [peak |-> <<65471, 0, 0>>, fit_gb |-> 1340, fit_g |-> 876, fit_cool |-> 6500]) @@
      (706 :> [peak |-> <<65471, 0, 0>>, fit_gb |-> 1340, fit_g |-> 876, fit_cool |-> 6500]) @@
      (707 :> [peak |-> <<65471, 0, 0>>, fit_gb |-> 1340, fit_g |-> 876, fit_cool |-> 6500]) @@
      (708 :> [peak |-> <<65471, 0, 0>>, fit_gb |-> 1340, fit_g |-> 876, fit_cool |-> 6500]) @@
      (709 :> [peak |-> <<65471, 0, 0>>, fit_gb |-> 1340, fit_g |-> 876, fit_cool |-> 6500]) @@
      (710 :> [peak |-> <<65471, 0, 0>>, fit_gb |-> 1340, fit_g |-> 876, fit_cool |-> 6500]) @@
      (711 :> [peak |-> <<65471, 0, 0>>, fit_gb |-> 1340, fit_g |-> 876, fit_cool |-> 6500]) @@
      (712 :> [peak |-> <<65471, 0, 0>>, fit_gb |-> 1340, fit_g |-> 876, fit_cool |-> 6500]) @@
      (713 :> [peak |-> <<65471, 0, 0>>, fit_gb |-> 1340, fit_g |-> 876, fit_cool |-> 6500]) @@
      (714 :> [peak |-> <<65471, 0, 0>>, fit_gb |-> 1340, fit_g |-> 876, fit_cool |-> 6500]) @@
      (715 :> [peak |-> <<65471, 0, 0>>, fit_gb |-> 1340, fit_g |-> 876, fit_cool |-> 6500]) @@
      (716 :> [peak |-> <<65471, 0, 0>>, fit_gb |-> 1340, fit_g |-> 876, fit_cool |-> 6500]) @@
      (717 :> [peak |-> <<65471, 0, 0>>, fit_gb |-> 1340, fit_g |-> 876, fit_cool |-> 6500]) @@
      (718 :> [peak |-> <<65471, 0, 0>>, fit_gb |-> 1340, fit_g |-> 876, fit_cool |-> 6500]) @@
      (719 :> [peak |-> <<65471, 0, 0>>, fit_gb |-> 1340, fit_g |-> 876, fit_cool |-> 6500]) @@
      (720 :> [peak |-> <<65471, 0, 0>>, fit_gb |-> 1340, fit_g |-> 876, fit_cool |-> 6500]) @@
      (750 :> [peak |-> <<65471, 0, 0>>, fit_gb |-> 1340, fit_g |-> 876, fit_cool |-> 6500]) @@
      (860 :> [peak |-> <<65471, 0, 0>>, fit_gb |-> 1340, fit_g |-> 876, fit_cool |-> 6500]) @@
      (861 :> [peak |-> <<65471, 0, 0>>, fit_gb |-> 1340, fit_g |-> 876, fit_cool |-> 6500]) @@
      (862 :> [peak |-> <<65471, 0, 0>>, fit_gb |-> 1340, fit_g |-> 876, fit_cool |-> 6500]) @@
      (863 :> [peak |-> <<65471, 0, 0>>, fit_gb |-> 1340, fit_g |-> 876, fit_cool |-> 6500]) @@
      (864 :> [peak |-> <<65471, 0, 0>>, fit_gb |-> 1340, fit_g |-> 876, fit_cool |-> 6500]) @@
      (865 :> [peak |-> <<65471, 0, 0>>, fit_gb |-> 1340, fit_g |-> 876, fit_cool |-> 6500]) @@
      (866 :> [peak |-> <<65471, 0, 0>>, fit_gb |-> 1340, fit_g |-> 876, fit_cool |-> 6500]) @@
      (867 :> [peak |-> <<65471, 0, 0>>, fit_gb |-> 1340, fit_g |-> 876, fit_cool |-> 6500]) @@
      (868 :> [peak |-> <<65471, 0, 0>>, fit_gb |-> 1340, fit_g |-> 876, fit_cool |-> 6500]) @@
      (869 :> [peak |-> <<65471, 0, 0>>, fit_gb |-> 1340, fit_g |-> 876, fit_cool |-> 6500]) @@
      (870 :> [peak |-> <<65471, 0, 0>>, fit_gb |-> 1340, fit_g |-> 876, fit_cool |-> 6500]) @@
      (871 :> [peak |-> <<65471, 0, 0>>, fit_gb |-> 1340, fit_g |-> 876, fit_cool |-> 6500]) @@
      (872 :> [peak |-> <<65471, 0, 0>>, fit_gb |-> 1340, fit_g |-> 876, fit_cool |-> 6500]) @@
      (873 :> [peak |-> <<65471, 0, 0>>, fit_gb |-> 1340, fit_g |-> 876, fit_cool |-> 6500]) @@
      (874 :> [peak |-> <<65471, 0, 0>>, fit_gb |-> 1340, fit_g |-> 876, fit_cool |-> 6500]) @@
      (875 :> [peak |-> <<65471, 0, 0>>, fit_gb |-> 1340, fit_g |-> 876, fit_cool |-> 6500]) @@
      (876 :> [peak |-> <<65471, 48, 0>>, fit_gb |-> 1340, fit_g |-> 876, fit_cool |-> 6497]) @@
      (877 :> [peak |-> <<65471, 154, 0>>, fit_gb |-> 1341, fit_g |-> 877, fit_cool |-> 6491]) @@
      (878 :> [peak |-> <<65471, 260, 0>>, fit_gb |-> 1342, fit_g |-> 878, fit_cool |-> 6486]) @@
      (879 :> [peak |-> <<65471, 365, 0>>, fit_gb |-> 1344, fit_g |-> 879, fit_cool |-> 6480]) @@
      (880 :> [peak |-> <<65471, 469, 0>>, fit_gb |-> 1345, fit_g |-> 880, fit_cool |-> 6474]) @@
      (881 :> [peak |-> <<65471, 573, 0>>, fit_gb |-> 1346, fit_g |-> 881, fit_cool |-> 6469]) @@
      (882 :> [peak |-> <<65471, 676, 0>>, fit_gb |-> 1347, fit_g |-> 882, fit_cool |-> 6463]) @@
      (883 :> [peak |-> <<65471, 778, 0>>, fit_gb |-> 1348, fit_g |-> 883, fit_cool |-> 6458]) @@
      (884 :> [peak |-> <<65471, 880, 0>>, fit_gb |-> 1349, fit_g |-> 884, fit_cool |-> 6452]) @@
      (885 :> [peak |-> <<65471, 982, 0>>, fit_gb |-> 1350, fit_g |-> 885, fit_cool |-> 6447]) @@
      (886 :> [peak |-> <<65471, 1083, 0>>, fit_gb |-> 1351, fit_g |-> 886, fit_cool |-> 6442]) @@
      (887 :> [peak |-> <<65471, 1183, 0>>, fit_gb |-> 1352, fit_g |-> 887, fit_cool |-> 6437]) @@
      (888 :> [peak |-> <<65471, 1283, 0>>, fit_gb |-> 1354, fit_g |-> 888, fit_cool |-> 6431]) @@
      (889 :> [peak |-> <<65471, 1382, 0>>, fit_gb |-> 1355, fit_g |-> 889, fit_cool |-> 6426]) @@
      (890 :> [peak |-> <<65471, 1481, 0>>, fit_gb |-> 1356, fit_g |-> 890, fit_cool |-> 6422]) @@
      (1000 :> [peak |-> <<65471, 10031, 0>>, fit_gb |-> 1457, fit_g |-> 1000, fit_cool |-> 6113]) @@
      (1250 :> [peak |-> <<65471, 21376, 0>>, fit_gb |-> 1617, fit_g |-> 1250, fit_cool |-> 5926]) @@
      (1500 :> [peak |-> <<65471, 28390, 0>>, fit_gb |-> 1732, fit_g |-> 1500, fit_cool |-> 5872]) @@
      (1750 :> [peak |-> <<65471, 33480, 0>>, fit_gb |-> 1824, fit_g |-> 1750, fit_cool |-> 5848]) @@
      (2000 :> [peak |-> <<65471, 37478, 4647>>, fit_gb |-> 2000, fit_g |-> 2000, fit_cool |-> 5850]) @@
      (2250 :> [peak |-> <<65471, 40770, 11801>>, fit_gb |-> 2250, fit_g |-> 2250, fit_cool |-> 5868]) @@
      (2500 :> [peak |-> <<65471, 43569, 17882>>, fit_gb |-> 2500, fit_g |-> 2500, fit_cool |-> 5889]) @@
      (2750 :> [peak |-> <<65471, 46004, 23172>>, fit_gb |-> 2750, fit_g |-> 2750, fit_cool |-> 5912]) @@
      (3000 :> [peak |-> <<65471, 48158, 27852>>, fit_gb |-> 3000, fit_g |-> 3000, fit_cool |-> 5937]) @@
      (3250 :> [peak |-> <<65471, 50089, 32049>>, fit_gb |-> 3250, fit_g |-> 3250, fit_cool |-> 5964]) @@
      (3500 :> [peak |-> <<65471, 51840, 35852>>, fit_gb |-> 3500, fit_g |-> 3500, fit_cool |-> 5994]) @@
      (3750 :> [peak |-> <<65471, 53440, 39331>>, fit_gb |-> 3750, fit_g |-> 3750, fit_cool |-> 6025]) @@
      (4000 :> [peak |-> <<65471, 54915, 42535>>, fit_gb |-> 4000, fit_g |-> 4000, fit_cool |-> 6059]) @@
      (4250 :> [peak |-> <<65471, 56282, 45505>>, fit_gb |-> 4250, fit_g |-> 4250, fit_cool |-> 6095]) @@
      (4500 :> [peak |-> <<65471, 57556, 48273>>, fit_gb |-> 4500, fit_g |-> 4500, fit_cool |-> 6132]) @@
      (4750 :> [peak |-> <<65471, 58749, 50864>>, fit_gb |-> 4750, fit_g |-> 4750, fit_cool |-> 6172]) @@
      (5000 :> [peak |-> <<65471, 59870, 53300>>, fit_gb |-> 5000, fit_g |-> 5000, fit_cool |-> 6213]) @@
      (5250 :> [peak |-> <<65471, 60928, 55599>>, fit_gb |-> 5250, fit_g |-> 5250, fit_cool |-> 6256]) @@
      (5500 :> [peak |-> <<65471, 61929, 57774>>, fit_gb |-> 5500, fit_g |-> 5500, fit_cool |-> 6301]) @@
      (5750 :> [peak |-> <<65471, 62879, 59839>>, fit_gb |-> 5750, fit_g |-> 5750, fit_cool |-> 6348]) @@
      (6000 :> [peak |-> <<65471, 63784, 61804>>, fit_gb |-> 6000, fit_g |-> 6000, fit_cool |-> 6397]) @@
      (6250 :> [peak |-> <<65471, 64646, 63679>>, fit_gb |-> 6250, fit_g |-> 6250, fit_cool |-> 6448]) @@
      (6490 :> [peak |-> <<65471, 65439, 65401>>, fit_gb |-> 6490, fit_g |-> 6490, fit_cool |-> 6498]) @@
      (6491 :> [peak |-> <<65471, 65442, 65408>>, fit_gb |-> 6491, fit_g |-> 6491, fit_cool |-> 6498]) @@
      (6492 :> [peak |-> <<65471, 65445, 65415>>, fit_gb |-> 6492, fit_g |-> 6492, fit_cool |-> 6498]) @@
      (6493 :> [peak |-> <<65471, 65448, 65422>>, fit_gb |-> 6493, fit_g |-> 6493, fit_cool |-> 6499]) @@
      (6494 :> [peak |-> <<65471, 65452, 65429>>, fit_gb |-> 6494, fit_g |-> 6494, fit_cool |-> 6499]) @@
      (6495 :> [peak |-> <<65471, 65455, 65436>>, fit_gb |-> 6495, fit_g |-> 6495, fit_cool |-> 6499]) @@
      (6496 :> [peak |-> <<65471, 65458, 65443>>, fit_gb |-> 6496, fit_g |-> 6496, fit_cool |-> 6499]) @@
      (6497 :> [peak |-> <<65471, 65461, 65450>>, fit_gb |-> 6497, fit_g |-> 6497, fit_cool |-> 6499]) @@
      (6498 :> [peak |-> <<65471, 65465, 65457>>, fit_gb |-> 6498, fit_g |-> 6498, fit_cool |-> 6500]) @@
      (6499 :> [peak |-> <<65471, 65468, 65464>>, fit_gb |-> 6499, fit_g |-> 6499, fit_cool |-> 6500]) @@
      (6500 :> [peak |-> <<65471, 65471, 65471>>, fit_gb |-> 6500, fit_g |-> 6500, fit_cool |-> 6500]) @@
      (6501 :> [peak |-> <<65460, 65464, 65471>>, fit_gb |-> 6500, fit_g |-> 6498, fit_cool |-> 6501]) @@
      (6502 :> [peak |-> <<65450, 65457, 65471>>, fit_gb |-> 6501, fit_g |-> 6496, fit_cool |-> 6502]) @@
      (6503 :> [peak |-> <<65439, 65450, 65471>>, fit_gb |-> 6501, fit_g |-> 6493, fit_cool |-> 6503]) @@
      (6504 :> [peak |-> <<65428, 65443, 65471>>, fit_gb |-> 6501, fit_g |-> 6491, fit_cool |-> 6504]) @@
      (6505 :> [peak |-> <<65417, 65436, 65471>>, fit_gb |-> 6502, fit_g |-> 6489, fit_cool |-> 6505]) @@
      (6506 :> [peak |-> <<65407, 65429, 65471>>, fit_gb |-> 6502, fit_g |-> 6487, fit_cool |-> 6506]) @@
      (6507 :> [peak |-> <<65396, 65422, 65471>>, fit_gb |-> 6503, fit_g |-> 6485, fit_cool |-> 6507]) @@
      (6508 :> [peak |-> <<65385, 65415, 65471>>, fit_gb |-> 6503, fit_g |-> 6483, fit_cool |-> 6508]) @@
      (6509 :> [peak |-> <<65375, 65408, 65471>>, fit_gb |-> 6503, fit_g |-> 6481, fit_cool |-> 6509]) @@
      (6510 :> [peak |-> <<65364, 65401, 65471>>, fit_gb |-> 6504, fit_g |-> 6478, fit_cool |-> 6510]) @@
      (6750 :> [peak |-> <<63170, 63969, 65471>>, fit_gb |-> 6579, fit_g |-> 6053, fit_cool |-> 6750]) @@
      (7000 :> [peak |-> <<61410, 62820, 65471>>, fit_gb |-> 6639, fit_g |-> 5734, fit_cool |-> 7000]) @@
      (7250 :> [peak |-> <<59984, 61889, 65471>>, fit_gb |-> 6689, fit_g |-> 5490, fit_cool |-> 7250]) @@
      (7500 :> [peak |-> <<58786, 61106, 65471>>, fit_gb |-> 6731, fit_g |-> 5294, fit_cool |-> 7500]) @@
      (7750 :> [peak |-> <<57752, 60431, 65471>>, fit_gb |-> 6768, fit_g |-> 5131, fit_cool |-> 7750]) @@
      (8000 :> [peak |-> <<56843, 59838, 65471>>, fit_gb |-> 6800, fit_g |-> 4993, fit_cool |-> 8000]) @@
      (8250 :> [peak |-> <<56032, 59308, 65471>>, fit_gb |-> 6829, fit_g |-> 4873, fit_cool |-> 8250]) @@
      (8500 :> [peak |-> <<55300, 58830, 65471>>, fit_gb |-> 6855, fit_g |-> 4768, fit_cool |-> 8500]) @@
      (8750 :> [peak |-> <<54633, 58395, 65471>>, fit_gb |-> 6879, fit_g |-> 4674, fit_cool |-> 8750]) @@
      (9000 :> [peak |-> <<54020, 57995, 65471>>, fit_gb |-> 6901, fit_g |-> 4590, fit_cool |-> 9000]) @@
      (9250 :> [peak |-> <<53453, 57625, 65471>>, fit_gb |-> 6922, fit_g |-> 4514, fit_cool |-> 9250]) @@
      (9500 :> [peak |-> <<52926, 57281, 65471>>, fit_gb |-> 6941, fit_g |-> 4445, fit_cool |-> 9500]) @@
      (9750 :> [peak |-> <<52433, 56959, 65471>>, fit_gb |-> 6959, fit_g |-> 4381, fit_cool |-> 9750]) @@
      (9995 :> [peak |-> <<51980, 56663, 65471>>, fit_gb |-> 6976, fit_g |-> 4323, fit_cool |-> 9995]) @@
      (9996 :> [peak |-> <<51978, 56662, 65471>>, fit_gb |-> 6976, fit_g |-> 4323, fit_cool |-> 9996]) @@
      (9997 :> [peak |-> <<51976, 56661, 65471>>, fit_gb |-> 6976, fit_g |-> 4323, fit_cool |-> 9997]) @@
      (9998 :> [peak |-> <<51975, 56659, 65471>>, fit_gb |-> 6976, fit_g |-> 4322, fit_cool |-> 9998]) @@
      (9999 :> [peak |-> <<51973, 56658, 65471>>, fit_gb |-> 6976, fit_g |-> 4322, fit_cool |-> 9999]) @@
      (10000 :> [peak |-> <<51971, 56657, 65471>>, fit_gb |-> 6976, fit_g |-> 4322, fit_cool |-> 10000])))

RoundTripSizes == DOMAIN RoundTripTable
RoundTripKelvins == DOMAIN RoundTripTable[256]

\* A plausible slip: the test gammab > 0.0 of line 183 left out.
EstimateTempNoBlueTest(e) ==
    LET gammar == e.peak[1]
        gammag == e.peak[2]
        gammab == e.peak[3]
        brightness == IF gammab > (IF gammar > gammag THEN gammar ELSE gammag)
                      THEN gammab
                      ELSE (IF gammar > gammag THEN gammar ELSE gammag)
    IN  IF ~(brightness > 0) THEN 0
        ELSE IF gammab - gammar < 0 THEN e.fit_gb
        ELSE e.fit_cool

\* Lines 157-206 for one CRTC: the temperature estimated from the entry e of
\* the table.  The divisions by brightness (positive) of lines 167-169 keep
\* the signs that the tests of lines 182, 183 and 189 look at.
EstimateTemp(e) ==
    LET gammar == e.peak[1]
        gammag == e.peak[2]
        gammab == e.peak[3]
        brightness == IF gammab > (IF gammar > gammag THEN gammar ELSE gammag)
                      THEN gammab
                      ELSE (IF gammar > gammag THEN gammar ELSE gammag)
    IN  IF ~(brightness > 0) THEN 0
        ELSE IF gammab - gammar < 0
        THEN (IF gammab > 0 THEN e.fit_gb
              ELSE IF gammag > 0 THEN e.fit_g
              ELSE TEMPERATURE_ZERO)
        ELSE e.fit_cool

RoundTripInputs ==
    [f : {"roundtrip"}, k : RoundTripKelvins, size : RoundTripSizes]

InitRound ==
    /\ RunIdle
    /\ fn_pc = "ready"
    /\ fn_in \in RoundTripInputs
    /\ fn_out = None

\* sct_for_screen with TempStatus {k, 1.0} on one CRTC of fn_in.size entries,
\* then get_sct_for_screen on it.
RoundTripApply ==
    /\ fn_pc = "ready"
    /\ fn_in.f = "roundtrip"
    /\ fn_out' = [peak |-> RoundTripTable[fn_in.size][fn_in.k].peak,
                  temp |-> EstimateTemp(RoundTripTable[fn_in.size][fn_in.k])]
    /\ fn_pc' = "done"
    /\ UNCHANGED <<fn_in, run_vars, loop_vars>>

NextRound == RoundTripApply

SpecRound == InitRound /\ [][NextRound]_vars

---------------------------------------------------------------------------
(* Ramp synthesis: the entries that sct_for_screen writes                  *)

GAMMA_MULT == 65535
MaxU16 == 65535

\* A gamma factor is a fixed-point integer counting thousandths.
FactorUnit == 1000

\* Bound of the small ramp sizes tried.
MaxSmallRamp == 4

\* Lines 231-234 (below TEMPERATURE_NORM: green, blue) and 241-244 (from it
\* on: red, green): the two affine functions of the logarithm before
\* double_trim, in thousandths.  Tabulated by tools/gen_factors.py.
FitTable ==
    (701 :> <<-1478, -4383>>) @@
    (876 :> <<1, -1171>>) @@
    (1000 :> <<153, -840>>) @@
    (1900 :> <<550, 21>>) @@
    (2000 :> <<572, 71>>) @@
    (3000 :> <<736, 425>>) @@
    (4500 :> <<879, 737>>) @@
    (5500 :> <<946, 882>>) @@
    (6499 :> <<1000, 1000>>) @@
    (6500 :> <<1000, 1000>>) @@
    (6501 :> <<1000, 1000>>) @@
    (8000 :> <<868, 914>>) @@
    (10000 :> <<794, 865>>) @@
    (25000 :> <<619, 751>>)

\* Lines 228-247: the factors <<gammar, gammag, gammab>>.
GammaFactors(t) ==
    IF t < TEMPERATURE_NORM
    THEN (IF t > TEMPERATURE_ZERO
          THEN <<FactorUnit, double_trim(FitTable[t][1], 0, FactorUnit),
                 double_trim(FitTable[t][2], 0, FactorUnit)>>
          ELSE <<FactorUnit, 0, 0>>)
    ELSE <<double_trim(FitTable[t][1], 0, FactorUnit),
           double_trim(FitTable[t][2], 0, FactorUnit), FactorUnit>>

\* A plausible slip: the brightness used as given.
RampBrightnessUntrimmed(ts) == ts.brightness

\* Line 226.
RampBrightness(ts) == double_trim(ts.brightness, 0, BrightnessUnit)

\* The integer part of a * b / c, for c > 0, without leaving 32 bits.
MulDiv(a, b, c) == (a \div c) * b + ((a % c) * b) \div c

\* Lines 280-283 before the cast: g = GAMMA_MULT * b * i / size, counted in
\* thousandths, and the integer part of g * factor + 0.5.
RampValue(b, factor, i, size) ==
    LET g == MulDiv(GAMMA_MULT * b, i, size)
    IN  (MulDiv(g, factor, FactorUnit) + (FactorUnit \div 2)) \div FactorUnit

\* The cast "as u16": saturating, and 0 for NaN.
AsU16(v) == IF v < 0 THEN 0 ELSE IF v > MaxU16 THEN MaxU16 ELSE v

RampEntry(b, factor, i, size) ==
    IF b = NaN THEN 0 ELSE AsU16(RampValue(b, factor, i, size))

\* Lines 275-284: the three ramps of a CRTC of gamma size size; entry i of
\* the source's vectors is element i + 1 here.
Synthesize(ts, size) ==
    LET b == RampBrightness(ts)
        f == GammaFactors(ts.temp)
    IN  [ch \in 1 .. 3 |->
            [n \in 1 .. size |-> RampEntry(b, f[ch], n - 1, size)]]

RampTemps == {0, TEMPERATURE_ZERO} \cup DOMAIN FitTable
RampBrightnesses == {NaN, -200, 0, 1, 500, 997, BrightnessUnit, 1500}
RampSizes == (0 .. MaxSmallRamp) \cup {256}

RampInputs ==
    [f : {"ramp"}, temp : RampTemps, brightness : RampBrightnesses,
     size : RampSizes]

InitRamp ==
    /\ RunIdle
    /\ fn_pc = "ready"
    /\ fn_in \in RampInputs
    /\ fn_out = None

RampApply ==
    /\ fn_pc = "ready"
    /\ fn_in.f = "ramp"
    /\ fn_out' = Synthesize([temp |-> fn_in.temp,
                             brightness |-> fn_in.brightness], fn_in.size)
    /\ fn_pc' = "done"
    /\ UNCHANGED <<fn_in, run_vars, loop_vars>>

NextRamp == RampApply

SpecRamp == InitRamp /\ [][NextRamp]_vars

---------------------------------------------------------------------------
(* The day window as a function of the timezone and the date               *)

\* What manage_brightness_cycle gets at lines 816-817 on a given date from
\* the table of line 1139.
DayWindow(longitude_offset, month, day) ==
    get_smoothed_day_times(new_for_timezone(longitude_offset), month, day)

WindowInputs ==
    [f : {"window"}, offset : LongitudeOffsets, month : 1 .. 12,
     day : 1 .. 31]

InitWindow ==
    /\ RunIdle
    /\ fn_pc = "ready"
    /\ fn_in \in WindowInputs
    /\ fn_out = None

WindowApply ==
    /\ fn_pc = "ready"
    /\ fn_in.f = "window"
    /\ fn_out' = DayWindow(fn_in.offset, fn_in.month, fn_in.day)
    /\ fn_pc' = "done"
    /\ UNCHANGED <<fn_in, run_vars, loop_vars>>

NextWindow == WindowApply

SpecWindow == InitWindow /\ [][NextWindow]_vars

---------------------------------------------------------------------------
(* Claims on the Kelvin computation (SpecKelvin)                           *)

KelvinDone == fn_pc = "done" /\ fn_in.f = "kelvin"
KSunrise == fn_in.sunrise
KSunset == fn_in.sunrise + fn_in.day_length

\* C1: outside [sunrise, sunset) the night branch is taken and the target is
\* the night value 4500, in particular one minute before sunrise and at
\* sunset itself; at sunrise, when the day is not empty, the ramp branch
\* (its morning half) is taken.
C1_NightOutsideHalfOpenDay ==
    KelvinDone =>
        /\ (fn_in.current_minutes < KSunrise \/ fn_in.current_minutes >= KSunset)
              => /\ fn_out.branch = "night"
                 /\ ~fn_out.panicked
                 /\ fn_out.kelvin = SchedNight
        /\ fn_in.current_minutes = KSunrise - 1
              => fn_out.branch = "night" /\ fn_out.kelvin = SchedNight
        /\ fn_in.current_minutes = KSunset
              => fn_out.branch = "night" /\ fn_out.kelvin = SchedNight
        /\ (fn_in.current_minutes = KSunrise /\ KSunrise < KSunset)
              => fn_out.branch = "morning"

C1_Witness ==
    /\ KelvinDone
    /\ KSunrise < KSunset
    /\ fn_in.current_minutes = KSunset
    /\ fn_out.branch = "night"
    /\ fn_out.kelvin = SchedNight

\* C2: every target the computation produces lies in [4500, 6500].
C2_TargetInRange ==
    (KelvinDone /\ ~fn_out.panicked) =>
        (SchedNight <= fn_out.kelvin /\ fn_out.kelvin <= SchedDay)

C2_Witness ==
    /\ KelvinDone
    /\ ~fn_out.panicked
    /\ fn_out.branch = "afternoon"
    /\ SchedNight < fn_out.kelvin
    /\ fn_out.kelvin < SchedDay

\* C3: with sunrise = sunset the computation does not divide by zero and
\* returns the fallback value 5500, whatever the current minute.
C3_DegenerateGivesFallback ==
    (KelvinDone /\ KSunrise = KSunset) =>
        (~fn_out.panicked /\ fn_out.kelvin = SchedFallback)

---------------------------------------------------------------------------
(* Claims on bound_temp (SpecBound)                                        *)

BoundDone == fn_pc = "done" /\ fn_in.f = "bound"

\* C9: bound_temp maps temp <= 0 to 6500, 0 < temp < 700 to 700 and leaves
\* temp >= 700; it maps brightness < 0 to 0.0, brightness > 1 to 1.0 and
\* leaves brightness in [0, 1]; so {-5, 1.5} gives {6500, 1.0} and
\* {100, -0.2} gives {700, 0.0}.
C9_BoundBranches ==
    BoundDone =>
        /\ fn_in.temp <= 0 => fn_out.temp = 6500
        /\ (0 < fn_in.temp /\ fn_in.temp < 700) => fn_out.temp = 700
        /\ fn_in.temp >= 700 => fn_out.temp = fn_in.temp
        /\ FLt(fn_in.brightness, 0) => fn_out.brightness = 0
        /\ FGt(fn_in.brightness, BrightnessUnit)
              => fn_out.brightness = BrightnessUnit
        /\ (fn_in.brightness # NaN /\ 0 <= fn_in.brightness
              /\ fn_in.brightness <= BrightnessUnit)
              => fn_out.brightness = fn_in.brightness
        /\ (fn_in.temp = -5 /\ fn_in.brightness = 1500)
              => fn_out = [temp |-> 6500, brightness |-> BrightnessUnit]
        /\ (fn_in.temp = 100 /\ fn_in.brightness = -200)
              => fn_out = [temp |-> 700, brightness |-> 0]

C9_Witness ==
    /\ BoundDone
    /\ fn_in.temp = -5
    /\ fn_in.brightness = 1500
    /\ fn_out = [temp |-> 6500, brightness |-> BrightnessUnit]

---------------------------------------------------------------------------
(* Claims on colorwarm xsct (SpecXsct)                                     *)

Finished == pc = "exit"
PortFaults == {"resources", "gamma", "gamma_size", "set_gamma"}
ScreenInvalid ==
    /\ Len(args.screen_specified) > 0
    /\ args.screen_specified[1] >= ScreenCount(gamma)
NothingWritten ==
    /\ nwrites = 0
    /\ \A s \in DOMAIN last_write :
         \A c \in DOMAIN last_write[s] : last_write[s][c] = <<>>
NoPositionals ==
    /\ args.temp_arg = DELTA_MIN
    /\ args.brightness_arg = DELTA_MIN * BrightnessUnit
AbsoluteMode == ~args.fdelta /\ args.temp_arg # DELTA_MIN
SelectedOutputs ==
    {<<s, c>> \in (DOMAIN gamma) \X (0 .. MaxCrtc) :
        /\ ScreenFirst <= s /\ s <= ScreenLast
        /\ \E i \in 1 .. Len(SelectedCrtcs(CrtcCount(gamma, s),
                                            args.crtc_specified)) :
              SelectedCrtcs(CrtcCount(gamma, s), args.crtc_specified)[i] = c}

\* C4: a screen index >= the number of screens is rejected as an invalid
\* selector before anything else runs, with no gamma read and no gamma
\* write, whatever the mode flags and arguments.
C4_InvalidScreenRejected ==
    (pc # "idle" /\ ScreenInvalid) =>
        /\ nreads = 0
        /\ NothingWritten
        /\ pc \in {"xsct_start", "exit"}
        /\ (Finished /\ ~args.fhelp /\ outcome # "connect_error")
              => outcome = "invalid_screen"

C4_Witness ==
    /\ ScreenInvalid
    /\ args.toggle
    /\ args.temp_arg = 3000
    /\ outcome = "invalid_screen"
    /\ nreads = 0
    /\ nwrites = 0

\* C5: a CRTC index that is not below the number of CRTCs of the targeted
\* screen (here: of any screen) leads to no gamma read and no gamma write.
C5_InvalidCrtcRejected ==
    (/\ pc # "idle"
     /\ args.crtc_specified >= 0
     /\ \A s \in DOMAIN gamma : args.crtc_specified >= CrtcCount(gamma, s))
        => (nreads = 0 /\ NothingWritten)

\* C6: in delta mode with a delta missing, the run writes no gamma ramp.
C6_IncompleteDeltaWritesNothing ==
    (/\ pc # "idle"
     /\ args.fdelta
     /\ \/ args.temp_arg = DELTA_MIN
        \/ args.brightness_arg = DELTA_MIN * BrightnessUnit)
        => NothingWritten

\* C7 as stated: with no positional arguments the run writes no gamma ramp.
C7_NoPositionalsWritesNothing ==
    (pc # "idle" /\ NoPositionals) => NothingWritten

\* C7, amended: with no positional arguments and without the toggle flag
\* the run writes no gamma ramp; without the delta flag either, a run that
\* completes has printed, for each selected screen in order, the estimate
\* of that screen's current ramps, and nothing else.
C7_ReportOnly ==
    (pc # "idle" /\ NoPositionals /\ ~args.toggle) =>
        /\ NothingWritten
        /\ (~args.fdelta /\ outcome = "ok") =>
              /\ Len(reported) = ScreenLast - ScreenFirst + 1
              /\ \A i \in 1 .. Len(reported) :
                    LET s == ScreenFirst + i - 1
                        est == get_sct_for_screen(gamma, s,
                                                  args.crtc_specified)
                    IN  reported[i] = <<s, est.temp, est.brightness>>

C7_Witness ==
    /\ NoPositionals
    /\ ~args.toggle
    /\ ~args.fdelta
    /\ outcome = "ok"
    /\ Len(reported) = 2
    /\ nreads > 2
    /\ nwrites = 0

\* C10: in absolute mode the run is never ended by the value requested
\* (only by a failing port call), and a run that completes has sent, for
\* every selected output, a last write whose temperature is 6500 when the
\* request is 0 and otherwise the request corrected as bound does: 6500 at
\* or below 0, 700 below 700, the request itself from 700 on.
C10_AbsoluteWritesBounded ==
    (pc # "idle" /\ AbsoluteMode) =>
        /\ (Finished /\ ~args.fhelp /\ ~ScreenInvalid) =>
              \/ outcome = "ok"
              \/ outcome = "connect_error"
              \/ outcome = "panic" /\ fault \in PortFaults
        /\ outcome = "ok" =>
              \A o \in SelectedOutputs :
                  /\ Len(last_write[o[1]][o[2]]) = 1
                  /\ last_write[o[1]][o[2]][1].temp =
                        IF args.temp_arg <= 0 THEN 6500
                        ELSE IF args.temp_arg < 700 THEN 700
                        ELSE args.temp_arg

C10_Witness ==
    /\ AbsoluteMode
    /\ args.temp_arg = 100
    /\ outcome = "ok"
    /\ Cardinality(SelectedOutputs) > 1
    /\ \A o \in SelectedOutputs : last_write[o[1]][o[2]][1].temp = 700

---------------------------------------------------------------------------
(* Claims on the main loop (Spec)                                          *)

\* The ways an apply can fail: the connection, the enumeration of the
\* outputs, the read of a ramp size, the write of a ramp (the request not
\* sent, or sent and rejected by the server).
ApplyFaults == {"connect", "resources", "gamma_size", "set_gamma", "rejected"}

\* The state is one of a run whose apply made by the loop (line 1204, not
\* the first update of line 1181) has met the failure f.
LoopApplyFailed(f) == napply >= 2 /\ fault = f

\* C8: the loop never terminates because one apply failed: whatever the
\* kind of failure an apply of the loop has met (connection, enumeration of
\* the outputs, read of a ramp size, ramp write), the process has not
\* ended on it and is still in its loop.
C8_LoopSurvivesApplyFailure ==
    \A f \in ApplyFaults : LoopApplyFailed(f) => outcome # "panic"

---------------------------------------------------------------------------
(* Claims on toggle and delta (SpecXsct)                                   *)

\* The CRTCs of screen cur to which the step sent a ramp.
WrittenNow ==
    LET sel == SelectedCrtcs(CrtcCount(gamma, cur), args.crtc_specified)
    IN  {sel[i] : i \in 1 .. (nwrites' - nwrites)}

\* The estimate of CRTC c of screen cur read alone, before the step.
OwnEstimate(c) == get_sct_for_screen(gamma, cur, c)

\* C11: toggle switches each selected output to night (4500) when that
\* output's own estimated temperature is within 100 K of neutral or above,
\* and to neutral (6500) otherwise.
C11_TogglePerOutput ==
    [][(pc = "toggle" /\ cur \in DOMAIN gamma)
          => \A c \in WrittenNow :
               last_write'[cur][c][1].temp =
                   IF OwnEstimate(c).temp >= TEMPERATURE_NORM - 100
                   THEN TEMPERATURE_NIGHT ELSE TEMPERATURE_NORM]_vars

\* C12: delta mode writes to each selected output the bound of that output's
\* own estimate plus the deltas, never of a baseline shared with the other
\* outputs (stated where the sum fits an i32).
C12_DeltaPerOutput ==
    [][(pc = "delta" /\ cur \in DOMAIN gamma)
          => \A c \in WrittenNow :
               ~AddOverflows(OwnEstimate(c).temp, temp.temp)
                  => last_write'[cur][c][1] =
                         bound_temp(
                             [temp |-> OwnEstimate(c).temp + temp.temp,
                              brightness |-> FAdd(OwnEstimate(c).brightness,
                                                  temp.brightness)])]_vars

---------------------------------------------------------------------------
(* Claims on the round trip (SpecRound)                                    *)

RoundDone == fn_pc = "done" /\ fn_in.f = "roundtrip"
RoundError ==
    IF fn_out.temp >= fn_in.k THEN fn_out.temp - fn_in.k
    ELSE fn_in.k - fn_out.temp

\* The lowest Kelvin value whose synthesized green factor is not clipped to
\* 0: K0GR + K1GR * ln(k - 700) > 0 from k = 876 on.
FirstUnclipped == 876

\* C13 as stated: for every k in 700 .. 10000, brightness 1.0 and ramp size
\* >= 256, the estimate of the ramp synthesized for k is within 5 K of k.
C13_RoundTripWithin5 ==
    RoundDone => RoundError <= 5

\* C13 amended: the estimate is within 5 K of k for k in 876 .. 10000; for k
\* in 700 .. 875 the green and blue ramps are all 0 and the estimate is 700.
C13_RoundTripAboveClip ==
    RoundDone =>
        /\ fn_in.k >= FirstUnclipped => RoundError <= 5
        /\ fn_in.k < FirstUnclipped
              => fn_out.temp = TEMPERATURE_ZERO /\ fn_out.peak[2] = 0
                 /\ fn_out.peak[3] = 0

C13_Witness ==
    /\ RoundDone
    /\ fn_in.k = FirstUnclipped
    /\ fn_out.temp = FirstUnclipped
    /\ fn_out.peak[2] > 0

---------------------------------------------------------------------------
(* Claims on the ramp synthesis (SpecRamp)                                 *)

RampDone == fn_pc = "done" /\ fn_in.f = "ramp"

\* The value of entry i of channel ch before the cast to u16.
RampRaw(ch, i) ==
    RampValue(RampBrightness([temp |-> fn_in.temp,
                              brightness |-> fn_in.brightness]),
              GammaFactors(fn_in.temp)[ch], i, fn_in.size)

\* C14: for every temperature, brightness and ramp size, each channel of the
\* synthesized ramp is non-decreasing in the index, entry 0 is 0, and every
\* entry is the rounded product itself, which fits 16 unsigned bits (the
\* cast neither saturates nor wraps).
C14_RampMonotonic ==
    (RampDone /\ fn_in.brightness # NaN) =>
        \A ch \in 1 .. 3 :
            /\ Len(fn_out[ch]) = fn_in.size
            /\ fn_in.size > 0 => fn_out[ch][1] = 0
            /\ \A n \in 1 .. fn_in.size :
                  /\ RampRaw(ch, n - 1) \in 0 .. MaxU16
                  /\ fn_out[ch][n] = RampRaw(ch, n - 1)
                  /\ n > 1 => fn_out[ch][n - 1] <= fn_out[ch][n]

C14_Witness ==
    /\ RampDone
    /\ fn_in.size = 256
    /\ fn_in.temp = TEMPERATURE_NIGHT
    /\ fn_in.brightness = 1500
    /\ fn_out[1][256] > fn_out[2][256]
    /\ fn_out[2][256] > fn_out[3][256]
    /\ fn_out[3][256] > fn_out[3][255]

---------------------------------------------------------------------------
(* Claims on the day window (SpecWindow)                                   *)

WindowDone == fn_pc = "done" /\ fn_in.f = "window"

\* The table of the timezone, and the months around the date's month, as
\* indices 0 .. 11.
WTable == new_for_timezone(fn_in.offset)
WMonth == fn_in.month - 1
WPrev == (WMonth + 11) % 12
WNext == (WMonth + 1) % 12

\* x is a + (b - a) * k / 30 rounded to the nearest integer.
NearestToFraction(x, a, b, k) ==
    LET num == 30 * a + (b - a) * k
        diff == 30 * x - num
    IN  2 * (IF diff >= 0 THEN diff ELSE -diff) <= 30

\* C15: on the 15th the window is the table entry of the month exactly
\* (fraction 30/30), for every month and timezone; on January 1st it is the
\* interpolation between the December and January entries with fraction
\* 16/30.
C15_WindowBoundary ==
    WindowDone =>
        /\ fn_in.day = 15
              => /\ fn_out.sunrise = WTable.sunrise[WMonth]
                 /\ fn_out.sunset = WTable.sunset[WMonth]
        /\ (fn_in.month = 1 /\ fn_in.day = 1)
              => /\ NearestToFraction(fn_out.sunrise, WTable.sunrise[11],
                                      WTable.sunrise[0], 16)
                 /\ NearestToFraction(fn_out.sunset, WTable.sunset[11],
                                      WTable.sunset[0], 16)

C15_Witness ==
    /\ WindowDone
    /\ fn_in.offset = 0 /\ fn_in.month = 1 /\ fn_in.day = 1
    /\ fn_out.sunrise = 520 /\ fn_out.sunset = 1011

\* C19: up to the 15th the window is the previous month's entry plus
\* (current - previous) * (day + 15) / 30, December being the month before
\* January; after the 15th it is the current month's entry plus
\* (next - current) * (day - 15) / 30, January being the month after
\* December; sunrise and sunset use the same fraction and each is rounded to
\* the nearest minute.
C19_WindowInterpolation ==
    WindowDone =>
        IF fn_in.day <= 15
        THEN /\ NearestToFraction(fn_out.sunrise, WTable.sunrise[WPrev],
                                  WTable.sunrise[WMonth], fn_in.day + 15)
             /\ NearestToFraction(fn_out.sunset, WTable.sunset[WPrev],
                                  WTable.sunset[WMonth], fn_in.day + 15)
        ELSE /\ NearestToFraction(fn_out.sunrise, WTable.sunrise[WMonth],
                                  WTable.sunrise[WNext], fn_in.day - 15)
             /\ NearestToFraction(fn_out.sunset, WTable.sunset[WMonth],
                                  WTable.sunset[WNext], fn_in.day - 15)

C19_Witness ==
    /\ WindowDone
    /\ fn_in.offset = -600 /\ fn_in.month = 12 /\ fn_in.day = 31
    /\ fn_out.sunrise = -80 /\ fn_out.sunset = 411

\* C20: for every timezone of the offset table, every month and every day
\* 1 .. 31, the window has sunrise < sunset.
C20_SunriseBeforeSunset ==
    WindowDone => fn_out.sunrise < fn_out.sunset

\* The shortest day of the table, under the largest offset.
C20_Witness ==
    /\ WindowDone
    /\ fn_in.offset = 268 /\ fn_in.month = 12 /\ fn_in.day = 15
    /\ fn_out.sunset - fn_out.sunrise = 477

\* C16: after the first update, the loop calls manage_brightness_cycle once
\* each time the minute it observes differs from last_minute, and in no
\* iteration where it does not; the call follows the observation before the
\* next one.
C16_OncePerMinuteChange ==
    [][/\ (pc = "poll" /\ pc' # "poll")
            => IF now.minutes % 60 # last_minute[1]
               THEN pc' = "update" /\ last_minute' = <<now.minutes % 60>>
               ELSE pc' = "loop_top" /\ last_minute' = last_minute
       /\ napply' # napply
            => napply' = napply + 1 /\ pc \in {"first_update", "update"}
       /\ (pc = "update" /\ pc' # "update") => napply' = napply + 1
       /\ (pc' = "update" /\ pc # "update") => pc = "poll"
       /\ (pc' = "first_update" /\ pc # "first_update")
            => pc = "main" /\ napply = 0
       /\ (pc' = "poll" /\ pc # "poll") => pc = "loop_top" /\ napply >= 1]_vars

\* Two minute changes were observed one by one, and three updates made.
C16_Witness ==
    /\ pc = "loop_top"
    /\ ticks = 2
    /\ napply = 3
    /\ last_minute = <<now.minutes % 60>>

\* Every CRTC of the display was sent the ramp of the last update.
LastUpdateWritten ==
    \A s \in DOMAIN last_write : \A c \in DOMAIN last_write[s] :
        last_write[s][c] =
            <<[temp |-> sched.seen.kelvin, brightness |-> BrightnessUnit]>>

\* C17: in the foreground the key is read once per iteration, at the top of
\* the loop and at no point of an update; when ESC is read the loop exits
\* and no update starts afterwards; an update that has started has sent all
\* its ramps before the exit (no update is cut short by ESC).
C17_CooperativeCancel ==
    [][/\ (stdin # "none" /\ stdin' = "none") => pc = "loop_top"
       /\ (pc' = "poll" /\ pc # "poll") => pc = "loop_top"
       /\ (pc = "loop_top" /\ pc' # "loop_top" /\ stdin = "esc"
            /\ stdin' = "none")
            => outcome' = "escaped" /\ pc' = "exit"
       /\ (outcome' = "escaped" /\ outcome # "escaped")
            => /\ pc = "loop_top" /\ stdin = "esc" /\ ~args.daemon
               /\ pc' = "exit"
               /\ UNCHANGED <<gamma, last_write, nwrites, napply, sched>>
               /\ sched.printed # "pending"
               /\ sched.printed \in {"setting", "brief"}
                     => LastUpdateWritten
       /\ outcome = "escaped"
            => UNCHANGED <<pc, gamma, last_write, nwrites, napply>>
       /\ (pc \in {"first_screens", "screens"} /\ stdin = "esc")
            => outcome' # "escaped" /\ (pc' # "exit" \/ outcome' = "panic")]_vars

\* ESC was read after an update of the loop that wrote every CRTC.
C17_Witness ==
    /\ outcome = "escaped"
    /\ napply >= 2
    /\ sched.printed \in {"setting", "brief"}
    /\ sched.seen.current_minutes # now.minutes
    /\ LastUpdateWritten

---------------------------------------------------------------------------
(* The daytime ramp (SpecKelvin)                                           *)

KHalfDay == fn_in.day_length \div 2
KMidpoint == KSunrise + KHalfDay
KNextMinute ==
    TargetKelvin(fn_in.current_minutes + 1, KSunrise, KSunset).kelvin

---------------------------------------------------------------------------
(* The range of the table and of the day window (SpecWindow)               *)

InDay(m) == 0 <= m /\ m < MinutesPerDay

\* C21: for every timezone of get_longitude_offset, the twelve sunrise and
\* the twelve sunset entries of the table, and the sunrise and the sunset of
\* the window of every date, are minutes of the day, in 0 .. 1439.
C21_MinutesOfTheDay ==
    WindowDone =>
        /\ \A m \in 0 .. 11 :
              InDay(WTable.sunrise[m]) /\ InDay(WTable.sunset[m])
        /\ InDay(fn_out.sunrise)
        /\ InDay(fn_out.sunset)

---------------------------------------------------------------------------
(* Division in the Kelvin computation (SpecKelvin)                         *)

\* C22: for every window with sunrise < sunset and every current_minutes
\* the Kelvin computation ends without a division by zero, the one-minute
\* window (day_length 1, half_day 0) included.
C22_NoDivisionByZero ==
    (KelvinDone /\ KSunrise < KSunset) => ~fn_out.panicked

---------------------------------------------------------------------------
(* The values handed to the ramp synthesis (SpecXsct, Spec)                *)

\* The TempStatus values of the writes recorded for the CRTCs.
WrittenStatuses ==
    UNION {UNION {{last_write[s][c][i] : i \in 1 .. Len(last_write[s][c])} :
                    c \in DOMAIN last_write[s]} :
              s \in DOMAIN last_write}

\* The brightness sct_for_screen multiplies the ramp by (line 226).
EffectiveBrightness(ts) == double_trim(ts.brightness, 0, BrightnessUnit)

\* Every write was synthesized from a temperature of at least 700.
WrittenTempAtLeastFloor ==
    \A ts \in WrittenStatuses : ts.temp >= TEMPERATURE_ZERO

\* C23: in every mode every gamma-ramp write is synthesized from a
\* temperature of at least 700 (TEMPERATURE_ZERO) and from an effective
\* brightness in [0, 1].
C23_WritesFromValidStatus ==
    \A ts \in WrittenStatuses :
        /\ ts.temp >= TEMPERATURE_ZERO
        /\ EffectiveBrightness(ts) # NaN
        /\ EffectiveBrightness(ts) >= 0
        /\ EffectiveBrightness(ts) <= BrightnessUnit

===========================================================================
